---- MODULE Spec2Model ----
(***************************************************************************)
(* Asteroid impact consequences and deflection-strategy comparison         *)
(* (models/mitigation.py, models/impact_physics.py, models/asteroid.py).   *)
(*                                                                         *)
(* The Python code computes with IEEE doubles.  The model computes the     *)
(* deflection side in integer fixed point with these units:                *)
(*   time            centi-years (cy), 1 cy = 1/100 Julian year            *)
(*   mass            tonnes (t), 1 t = 1000 kg                             *)
(*   delta-v         1e-4 m/s                                              *)
(*   dv_ratio        1e-3  (1000 = ratio 1.0)                              *)
(*   score           1e-4                                                  *)
(*   probability     percent                                               *)
(*   cost            0.1 million USD                                       *)
(*   preparation     milli-years                                           *)
(*   distance        1000 km                                               *)
(* Every division is a floor division at the stated unit.                  *)
(***************************************************************************)
EXTENDS Integers, Sequences, FiniteSets, TLC

(***************************************************************************)
(* Integer arithmetic helpers                                              *)
(***************************************************************************)

Max2(a, b) == IF a >= b THEN a ELSE b

Min2(a, b) == IF a <= b THEN a ELSE b

\* floor(a*b/c) for a >= 0, b >= 0, 0 < c < 2^29, without forming a*b:
\* binary long multiplication carrying quotient and remainder.
RECURSIVE MulDivQR(_, _, _)
MulDivQR(a, b, c) ==
    IF b = 0 THEN <<0, 0>>
    ELSE LET h == MulDivQR(a, b \div 2, c)
             q == 2 * h[1] + (IF b % 2 = 1 THEN a \div c ELSE 0)
             r == 2 * h[2] + (IF b % 2 = 1 THEN a % c ELSE 0)
         IN  <<q + (r \div c), r % c>>

\* a*b/c truncated toward zero in magnitude, sign of a*b/c (c > 0)
MulDiv(a, b, c) ==
    LET aa == IF a < 0 THEN -a ELSE a
        bb == IF b < 0 THEN -b ELSE b
        m  == MulDivQR(aa, bb, c)[1]
    IN  IF (a < 0) = (b < 0) THEN m ELSE -m

\* a / b truncated toward zero, b # 0
Quot(a, b) ==
    LET aa == IF a < 0 THEN -a ELSE a
        bb == IF b < 0 THEN -b ELSE b
    IN  IF (a < 0) = (b < 0) THEN aa \div bb ELSE -(aa \div bb)

\* floor(sqrt(n)) for n >= 0, by bisection
RECURSIVE IsqrtIn(_, _, _)
IsqrtIn(n, lo, hi) ==
    IF hi - lo <= 1 THEN lo
    ELSE LET mid == (lo + hi) \div 2
         IN  IF mid * mid <= n THEN IsqrtIn(n, mid, hi) ELSE IsqrtIn(n, lo, mid)

Isqrt(n) == IsqrtIn(n, 0, 46341)

\* 1e7 * ln(num/den) for num >= den > 0: halve the argument into [1,2) and
\* sum the series ln(y) = 2(z + z^3/3 + z^5/5 + z^7/7), z = (y-1)/(y+1)
RECURSIVE LnE7(_, _)
LnE7(num, den) ==
    IF num >= 2 * den THEN
        IF num % 2 = 0 THEN 6931472 + LnE7(num \div 2, den)
        ELSE 6931472 + LnE7(num, 2 * den)
    ELSE LET z  == MulDiv(num - den, 10000000, num + den)
             z2 == MulDiv(z, z, 10000000)
             z3 == MulDiv(z, z2, 10000000)
             z5 == MulDiv(z3, z2, 10000000)
             z7 == MulDiv(z5, z2, 10000000)
         IN  2 * (z + z3 \div 3 + z5 \div 5 + z7 \div 7)

(***************************************************************************)
(* Inputs of the model                                                     *)
(***************************************************************************)

\* largest whole-year warning time requested
MaxWarningYears == 20

\* largest whole-year continuous-thrust mission duration requested
MaxMissionYears == 5

\* asteroid diameters requested, metres
Diameters == {10, 30, 100, 250, 300, 400, 450, 500, 600}

\* warning times requested, cy: negative, zero, days, just under a bucket
\* threshold, and whole years
WarningTimes ==
    {-100, 0, 1, 2, 3, 499, 1499} \cup {100 * k : k \in 1..MaxWarningYears}

\* mission durations requested, cy: whole years and one very long mission
\* (60000 years), long enough for laser ablation to remove a sizeable part
\* of the asteroid
MissionDurations == {100 * k : k \in 0..MaxMissionYears} \cup {6000000}

\* impact dates requested, cy after the epoch of the calendar
ImpactDates == {3500}

\* missions handed to MitigationCalculator directly, whose launch date and
\* warning time are independent fields
DirectLaunchDates == {1500, 3100, 3500, 3600}

DirectWarningTimes == {300, 1000, 2000}

DirectMasses == {2000, 143138250}

DirectDiameters == {100, 250, 450}

\* impact requests: diameter (m), velocity (km/s), density (kg/m^3), angle
\* (degrees) and target type, valid and invalid
ImpactDiameters == {-100, 0, 1, 50, 500}

ImpactVelocities == {-20, 0, 1, 10, 20}

ImpactDensities == {-3000, 0, 3000, 8000}

ImpactAngles == {-30, 0, 30, 45, 90, 120}

TargetTypes == {"land", "water", "ocean", "coast"}

\* states of the process-wide random generators (np.random, random)
RngStates == {0, 1}

\* requests of a caller that drives an ImpactPhysicsCalculator method by
\* method: diameters of the impactor, at 20 km/s, 3000 kg/m^3 and 45 degrees
CalculatorDiameters == {50, 500}

CalculatorTargets == {"land", "water"}

\* impact locations of ImpactSimulator
Latitudes == {0, 45}

Longitudes == {0}

\* arguments of DeflectionSimulator: NEO id, method (one unknown) and years
\* before impact
AsteroidIds == {"2099942"}

DeflectionMethods == {"kinetic", "gravity_tractor", "nuclear", ""}

YearsBeforeImpact == {0, 1, 3, 5, 10, 25}

\* type_name arguments of Asteroid: none given, a known type, an unknown one
AsteroidTypeNames == {"", "metallic", "stony"}

(***************************************************************************)
(* Environment of the model functions                                      *)
(***************************************************************************)

VARIABLES
    rng,              \* state of the process-wide random generators
    first             \* outcome of the first of two identical evaluations

env_vars == <<rng, first>>

\* the next value of random(), in percent, and the generator state after it
RandomUnit == IF rng = 0 THEN 25 ELSE 85

NextRng == (rng + 1) % 2

\* the value of the k-th next call of random(), in percent (k = 0 the next)
RandomUnitAfter(k) == IF (rng + k) % 2 = 0 THEN 25 ELSE 85

(***************************************************************************)
(* models/mitigation.py                                                    *)
(***************************************************************************)

StrategyOrder ==
    <<"kinetic_impactor", "gravity_tractor", "nuclear", "laser_ablation", "ion_beam">>

StrategyKeys == {StrategyOrder[i] : i \in 1..Len(StrategyOrder)}

\* DeflectionMission dataclass
DeflectionMission(strategy, launch, diameter, velocity, mass, warning, duration) ==
    [strategy |-> strategy, launch_date |-> launch, asteroid_diameter |-> diameter,
     asteroid_velocity |-> velocity, asteroid_mass |-> mass,
     warning_time_years |-> warning, mission_duration_years |-> duration]

\* (4/3) * pi * (d/2)^3 * 3000 kg = 1570.8 * d^3 kg = 1.5708 * d^3 t
SphereMass(diameter) == MulDiv(diameter * diameter * diameter, 15708, 10000)

\* time_years of calculate_required_deflection: (impact_date - launch_date)
\* in years
TimeYears(m, impact_date) == impact_date - m.launch_date

\* safety_margin / time_years, km per year (safety margin 10 * 6371 km)
RequiredKmPerYear(time_years) == Quot(10 * 6371 * 100, time_years)

\* delta_v_ms = delta_v * 1000 / (365.25 * 24 * 3600), in 1e-4 m/s:
\* km/year * 1e7 / 31557600 = km/year * 0.3169
RequiredDeltaV(time_years) == MulDiv(RequiredKmPerYear(time_years), 3169, 10000)

\* warning_time_seconds-based extrapolation, delta_v * seconds / 1000 km:
\* (dv * 1e-4 m/s) * (w * 315576 s) / 1000 m/km / 1000 = dv * w * 3.156e-5
DeflectionDistance(delta_v, warning) == MulDiv(delta_v, warning * 3156, 100000000)

\* mutant: the diameter thresholds taken inclusive
KineticSuccessInclusive(diameter) ==
    IF diameter <= 100 THEN 95
    ELSE IF diameter <= 300 THEN 85
    ELSE IF diameter <= 500 THEN 70
    ELSE 50

KineticSuccess(diameter) ==
    IF diameter < 100 THEN 95
    ELSE IF diameter < 300 THEN 85
    ELSE IF diameter < 500 THEN 70
    ELSE 50

\* mutant: the momentum delivered grows with the years of operation
KineticDeltaVOverMission(m) ==
    ((175000000 \div m.asteroid_mass) * (m.mission_duration_years \div 100)) \div 5

\* beta * impactor_mass * impactor_velocity = 3.5 * 500 * 10000 = 1.75e7 kg m/s;
\* divided by the mass in kg, in 1e-4 m/s: 1.75e8 / mass_t
KineticDeltaV(m) == 175000000 \div m.asteroid_mass

kinetic_impactor_deflection(m) ==
    LET delta_v == KineticDeltaV(m)
    IN  [delta_v_ms |-> delta_v,
         deflection_distance_km |-> DeflectionDistance(delta_v, m.warning_time_years),
         success_probability |-> KineticSuccess(m.asteroid_diameter),
         mission_cost_million_usd |-> 3000 + m.asteroid_diameter,
         preparation_time_years |-> 3000 + 5 * m.asteroid_diameter]

GravitySuccess(warning) ==
    IF warning > 1000 THEN 90
    ELSE IF warning > 500 THEN 75
    ELSE 50

\* accel = G * 1000 / 100^2 = 6.674e-12 m/s^2; delta_v = accel * duration:
\* 6.674e-12 * 315576 s/cy = 2.10615e-6 m/s per cy = 0.0210615 units per cy
GravityDeltaV(m) == MulDiv(m.mission_duration_years, 21062, 1000000)

gravity_tractor_deflection(m) ==
    LET delta_v == GravityDeltaV(m)
    IN  [delta_v_ms |-> delta_v,
         deflection_distance_km |-> DeflectionDistance(delta_v, m.warning_time_years),
         success_probability |-> GravitySuccess(m.warning_time_years),
         mission_cost_million_usd |-> 10000 + m.mission_duration_years * 20,
         preparation_time_years |-> 5000,
         mission_duration_years |-> m.mission_duration_years]

NuclearSuccess(diameter) ==
    IF diameter < 200 THEN 85 ELSE IF diameter < 500 THEN 75 ELSE 65

NuclearFragmentation(diameter) ==
    IF diameter < 200 THEN 60 ELSE IF diameter < 500 THEN 30 ELSE 10

\* momentum_transfer = sqrt(2 * 0.15 * 4.184e15 * mass_kg)
\*                   = 1.12036e9 * sqrt(mass_t) kg m/s, here in 1e6 kg m/s
NuclearMomentum(m) == (11204 * Isqrt(m.asteroid_mass)) \div 10

\* delta_v = momentum_transfer / mass_kg, in 1e-4 m/s:
\* (p * 1e6) / (mass_t * 1e3) * 1e4 = p * 1e7 / mass_t
NuclearDeltaV(m) == MulDiv(NuclearMomentum(m), 10000000, m.asteroid_mass)

nuclear_deflection(m) ==
    LET delta_v == NuclearDeltaV(m)
    IN  [delta_v_ms |-> delta_v,
         deflection_distance_km |-> DeflectionDistance(delta_v, m.warning_time_years),
         success_probability |-> NuclearSuccess(m.asteroid_diameter),
         fragmentation_risk |-> NuclearFragmentation(m.asteroid_diameter),
         mission_cost_million_usd |-> 50000,
         preparation_time_years |-> 2000]

\* mass_ablated = 10 MW * 0.001 kg/s/MW * duration: 0.01 * 315576 kg per cy
\* = 3.15576 t per cy
LaserMassAblated(m) == MulDiv(m.mission_duration_years, 315576, 100000)

\* math.log(mass / (mass - mass_ablated)) is defined only when the quotient is
\* positive: a zero divisor raises ZeroDivisionError, a negative quotient
\* raises ValueError
LaserFault(m) ==
    IF m.asteroid_mass - LaserMassAblated(m) = 0 THEN "ZeroDivisionError"
    ELSE IF m.asteroid_mass - LaserMassAblated(m) < 0 THEN "ValueError"
    ELSE "none"

\* mutant: the logarithm of the inverted mass quotient
LaserDeltaVInverted(m) ==
    0 - LnE7(m.asteroid_mass, m.asteroid_mass - LaserMassAblated(m))

\* delta_v = 1000 * ln(mass / (mass - mass_ablated)) m/s = 1e7 * ln(..) units
LaserDeltaV(m) == LnE7(m.asteroid_mass, m.asteroid_mass - LaserMassAblated(m))

laser_ablation_deflection(m) ==
    LET delta_v == LaserDeltaV(m)
    IN  [delta_v_ms |-> delta_v,
         deflection_distance_km |-> DeflectionDistance(delta_v, m.warning_time_years),
         success_probability |-> 65,
         mission_cost_million_usd |-> 20000 + m.mission_duration_years * 30,
         preparation_time_years |-> 8000,
         mission_duration_years |-> m.mission_duration_years]

IonSuccess(warning) == IF warning > 1000 THEN 85 ELSE 60

\* accel = 0.5 / mass_kg; delta_v = accel * duration:
\* 0.5 * 315576 s/cy / (mass_t * 1e3) * 1e4 = 1577880 * cy / mass_t
IonDeltaV(m) == MulDiv(1577880, m.mission_duration_years, m.asteroid_mass)

ion_beam_deflection(m) ==
    LET delta_v == IonDeltaV(m)
    IN  [delta_v_ms |-> delta_v,
         deflection_distance_km |-> DeflectionDistance(delta_v, m.warning_time_years),
         success_probability |-> IonSuccess(m.warning_time_years),
         mission_cost_million_usd |-> 15000 + m.mission_duration_years * 25,
         preparation_time_years |-> 6000,
         mission_duration_years |-> m.mission_duration_years]

\* mutant: the achieved delta-v in m/s taken for the ratio, the division by
\* the required delta-v forgotten
DvRatioNoRequired(delta_v, required_dv) == delta_v \div 10

\* dv_ratio = data['delta_v_ms'] / required_dv if required_dv > 0 else 0
DvRatio(delta_v, required_dv) ==
    IF required_dv > 0 THEN MulDiv(delta_v, 1000, required_dv) ELSE 0

\* weighted score: 0.3 * dv_ratio + 0.3 * success_probability
\*   + 0.2 * (1000 / cost) + 0.2 * (1 / max(preparation_time_years, 1))
Score(data, dv_ratio) ==
    3 * dv_ratio
    + 30 * data.success_probability
    + 20000000 \div data.mission_cost_million_usd
    + 2000000 \div Max2(data.preparation_time_years, 1000)

IsSufficient(dv_ratio) == dv_ratio >= 1000

\* one entry appended to rankings by the loop of compare_all_strategies
RankingEntry(name, data, required_dv) ==
    LET dv_ratio == DvRatio(data.delta_v_ms, required_dv)
    IN  [strategy |-> name,
         score |-> Score(data, dv_ratio),
         is_sufficient |-> IsSufficient(dv_ratio),
         effectiveness_ratio |-> dv_ratio,
         data |-> data]

\* the loop over strategies.items(): entries in evaluation order
UnsortedRankings(strats, required_dv) ==
    [i \in 1..Len(StrategyOrder) |->
        RankingEntry(StrategyOrder[i], strats[StrategyOrder[i]], required_dv)]

\* mutant: an unstable descending sort, which puts x before the entries of
\* equal score
InsertPositionUnstable(sorted, x) ==
    IF \E i \in 1..Len(sorted) : sorted[i].score <= x.score
    THEN CHOOSE i \in 1..Len(sorted) :
            /\ sorted[i].score <= x.score
            /\ \A j \in 1..(i - 1) : sorted[j].score > x.score
    ELSE Len(sorted) + 1

\* where list.sort(key=score, reverse=True) puts x among already sorted
\* entries: after every entry whose score is not smaller (the sort is stable)
InsertPosition(sorted, x) ==
    IF \E i \in 1..Len(sorted) : sorted[i].score < x.score
    THEN CHOOSE i \in 1..Len(sorted) :
            /\ sorted[i].score < x.score
            /\ \A j \in 1..(i - 1) : sorted[j].score >= x.score
    ELSE Len(sorted) + 1

InsertByScore(sorted, x) ==
    LET p == InsertPosition(sorted, x)
    IN  SubSeq(sorted, 1, p - 1) \o <<x>> \o SubSeq(sorted, p, Len(sorted))

RECURSIVE SortByScoreFrom(_, _, _)
SortByScoreFrom(seq, i, sorted) ==
    IF i > Len(seq) THEN sorted
    ELSE SortByScoreFrom(seq, i + 1, InsertByScore(sorted, seq[i]))

\* rankings.sort(key=lambda x: x['score'], reverse=True)
SortByScore(seq) == SortByScoreFrom(seq, 1, <<>>)

\* sufficient_strategies = [r for r in rankings if r['is_sufficient']]
SufficientStrategies(ranks) == SelectSeq(ranks, LAMBDA r : r.is_sufficient)

UrgentMessage(best) ==
    IF best.strategy = "nuclear"
    THEN "CRITICAL: Nuclear deflection recommended due to short warning time"
    ELSE "URGENT: Deploy kinetic impactor mission immediately"

\* mutant: the bucket thresholds taken inclusive
RecommendationStatusInclusive(warning) ==
    IF warning <= 500 THEN "URGENT"
    ELSE IF warning <= 1500 THEN "ADEQUATE"
    ELSE "OPTIMAL"

\* the warning-time branches of generate_recommendations
RecommendationStatus(warning) ==
    IF warning < 500 THEN "URGENT"
    ELSE IF warning < 1500 THEN "ADEQUATE"
    ELSE "OPTIMAL"

generate_recommendations(m, ranks) ==
    LET sufficient_strategies == SufficientStrategies(ranks)
        best == sufficient_strategies[1]
    IN  IF sufficient_strategies = <<>> THEN
            [status |-> "INSUFFICIENT",
             message |-> "No single strategy sufficient. Consider multiple missions or evacuation."]
        ELSE IF RecommendationStatus(m.warning_time_years) = "URGENT" THEN
            [status |-> "URGENT",
             message |-> UrgentMessage(best),
             primary_strategy |-> best.strategy,
             backup_strategies |-> <<ranks[2].strategy, ranks[3].strategy>>,
             timeline |-> "Immediate action required",
             cost_estimate_million_usd |-> best.data.mission_cost_million_usd]
        ELSE IF RecommendationStatus(m.warning_time_years) = "ADEQUATE" THEN
            [status |-> "ADEQUATE",
             message |-> "Multiple options available. Kinetic impactor recommended.",
             primary_strategy |-> "kinetic_impactor",
             backup_strategies |-> <<"ion_beam", "nuclear">>,
             timeline |-> "Launch within 2-3 years",
             cost_estimate_million_usd |-> ranks[1].data.mission_cost_million_usd]
        ELSE
            [status |-> "OPTIMAL",
             message |-> "Ample time for precise deflection. Gravity tractor or ion beam recommended.",
             primary_strategy |-> "gravity_tractor",
             backup_strategies |-> <<"ion_beam", "kinetic_impactor">>,
             timeline |-> "Launch within 5 years, operate for extended period",
             cost_estimate_million_usd |-> ranks[1].data.mission_cost_million_usd]

(***************************************************************************)
(* models/impact_physics.py                                                *)
(*                                                                         *)
(* Every quantity of the impact pipeline is a product, quotient or power   *)
(* of its inputs, so the model keeps a real number as its sign and the     *)
(* decimal logarithm of its magnitude in thousandths ("millilog"):         *)
(*   [k |-> "pos" | "neg" | "zero" | "complex", lg |-> round(1000*log10|x|)]*)
(* "complex" is what Python's float ** float returns for a negative base.  *)
(* The seismic magnitude and intensity, which the code computes from       *)
(* log10, are plain numbers in thousandths.                                *)
(***************************************************************************)

Pos(lg) == [k |-> "pos", lg |-> lg]

Neg(lg) == [k |-> "neg", lg |-> lg]

Zero == [k |-> "zero", lg |-> 0]

Complex == [k |-> "complex", lg |-> 0]

\* round(1000 * log10(n)) for the whole numbers the model computes with
Log10Milli(n) ==
    CASE n = 1 -> 0        [] n = 2 -> 301      [] n = 5 -> 699
      [] n = 10 -> 1000    [] n = 11 -> 1041    [] n = 20 -> 1301
      [] n = 25 -> 1398    [] n = 50 -> 1699    [] n = 51 -> 1708
      [] n = 100 -> 2000   [] n = 101 -> 2004   [] n = 250 -> 2398
      [] n = 500 -> 2699   [] n = 501 -> 2700   [] n = 1000 -> 3000
      [] n = 2000 -> 3301  [] n = 3000 -> 3477  [] n = 5000 -> 3699
      [] n = 8000 -> 3903  [] n = 10000 -> 4000
      [] n = 1625 -> 3211  [] n = 4325 -> 3636

\* a whole-number input as a real
Real(n) ==
    IF n = 0 THEN Zero
    ELSE IF n > 0 THEN Pos(Log10Milli(n))
    ELSE Neg(Log10Milli(-n))

\* a * b
Mul(a, b) ==
    IF a.k = "complex" \/ b.k = "complex" THEN Complex
    ELSE IF a.k = "zero" \/ b.k = "zero" THEN Zero
    ELSE IF a.k = b.k THEN Pos(a.lg + b.lg)
    ELSE Neg(a.lg + b.lg)

\* a / b for b # 0
Div(a, b) ==
    IF a.k = "complex" \/ b.k = "complex" THEN Complex
    ELSE IF a.k = "zero" THEN Zero
    ELSE IF a.k = b.k THEN Pos(a.lg - b.lg)
    ELSE Neg(a.lg - b.lg)

\* a ** n for a whole n >= 1
RECURSIVE PowInt(_, _)
PowInt(a, n) == IF n = 1 THEN a ELSE Mul(a, PowInt(a, n - 1))

\* a ** (num/100) for a real exponent in (0,1): 0.0 stays 0.0 and a negative
\* base gives a complex number
PowFrac(a, num) ==
    IF a.k = "zero" THEN Zero
    ELSE IF a.k = "pos" THEN Pos((a.lg * num) \div 100)
    ELSE Complex

\* math.sqrt(a) for a >= 0
Sqrt(a) == IF a.k = "zero" THEN Zero ELSE Pos(a.lg \div 2)

\* a < b and a > b for two reals (not complex)
Less(a, b) ==
    CASE a.k = "pos" -> b.k = "pos" /\ a.lg < b.lg
      [] a.k = "zero" -> b.k = "pos"
      [] a.k = "neg" -> b.k # "neg" \/ a.lg > b.lg

Greater(a, b) == Less(b, a)

\* math.sin(math.radians(angle)) for the angles of the model; sin(0) = 0.0
\* and sin(90 degrees) = 1.0 exactly
SinDegrees(angle) ==
    CASE angle = -30 -> Neg(-301)
      [] angle = 0 -> Zero
      [] angle = 30 -> Pos(-301)
      [] angle = 45 -> Pos(-151)
      [] angle = 90 -> Pos(0)
      [] angle = 120 -> Pos(-62)

\* np.cos(np.radians(angle)); cos(90 degrees) = 6.1e-17 in doubles
CosDegrees(angle) ==
    CASE angle = -30 -> Pos(-62)
      [] angle = 0 -> Pos(0)
      [] angle = 30 -> Pos(-62)
      [] angle = 45 -> Pos(-151)
      [] angle = 90 -> Pos(-16213)
      [] angle = 120 -> Neg(-301)

\* ImpactParameters dataclass
ImpactParameters(diameter, velocity, density, angle, target_type) ==
    [diameter |-> diameter, velocity |-> velocity, density |-> density,
     angle |-> angle, target_type |-> target_type]

\* TNT_EQUIVALENT = 4.184e12
TntEquivalent == Pos(12622)

\* calculate_kinetic_energy: the keys it adds to self.results
calculate_kinetic_energy(prm) ==
    LET radius == Div(Real(prm.diameter), Real(2))
        volume == Mul(Pos(622), PowInt(radius, 3))
        mass == Mul(volume, Real(prm.density))
        velocity_ms == Mul(Real(prm.velocity), Real(1000))
        kinetic_energy == Mul(Pos(-301), Mul(mass, PowInt(velocity_ms, 2)))
        megatons_tnt == Div(kinetic_energy, TntEquivalent)
        angle_factor == SinDegrees(prm.angle)
        effective_energy == Mul(kinetic_energy, angle_factor)
    IN  [mass |-> mass,
         kinetic_energy_joules |-> kinetic_energy,
         kinetic_energy_megatons |-> megatons_tnt,
         effective_energy |-> effective_energy,
         effective_megatons |-> Div(effective_energy, TntEquivalent),
         hiroshima_equivalent |-> Div(megatons_tnt, Pos(-1824))]

\* mutant: the target decided by a draw, as ImpactSimulator does
ScalingConstantSampled(target_type) ==
    IF RandomUnit < 70 THEN Pos(342) ELSE Pos(255)

\* mutant: the two scaling constants exchanged
ScalingConstantSwapped(target_type) ==
    IF target_type = "land" THEN Pos(342) ELSE Pos(255)

\* scaling_constant: 1.8 for 'land', 2.2 for every other target type
ScalingConstant(target_type) == IF target_type = "land" THEN Pos(255) ELSE Pos(342)

\* calculate_crater_dimensions
calculate_crater_dimensions(prm, res) ==
    LET energy_mt == res.effective_megatons
        crater_diameter == Mul(ScalingConstant(prm.target_type), PowFrac(energy_mt, 28))
        crater_depth == Div(crater_diameter, Real(5))
        crater_volume == Mul(Pos(-105), Mul(PowInt(crater_diameter, 2), crater_depth))
    IN  [crater_diameter_km |-> crater_diameter,
         crater_diameter_m |-> Mul(crater_diameter, Real(1000)),
         crater_depth_km |-> crater_depth,
         crater_depth_m |-> Mul(crater_depth, Real(1000)),
         crater_volume_km3 |-> crater_volume]

\* magnitude = 0.67 * log10(energy_joules) - 5.87 if energy_joules > 0 else 0
SeismicMagnitude(energy_joules) ==
    IF energy_joules.k = "pos" THEN (67 * energy_joules.lg) \div 100 - 5870 ELSE 0

SeismicDistances == <<10, 50, 100, 500, 1000, 5000>>

\* what the loop of calculate_seismic_effects raises: comparing a distance
\* with a complex crater radius is a TypeError, dividing by a zero crater
\* radius a ZeroDivisionError
SeismicFault(res) ==
    LET crater_radius == Div(res.crater_diameter_km, Real(2))
    IN  IF crater_radius.k = "complex" THEN "TypeError"
        ELSE IF crater_radius.k # "pos" THEN "ZeroDivisionError"
        ELSE "none"

\* intensity_value = max(0, min(12, magnitude - 1.5 * log10(distance / crater_radius)))
IntensityValue(magnitude, distance, crater_radius) ==
    Max2(0, Min2(12000,
        magnitude - (15 * Div(Real(distance), crater_radius).lg) \div 10))

IntensityBand(intensity_value) ==
    IF intensity_value >= 10000 THEN "X-XII (Extreme)"
    ELSE IF intensity_value >= 8000 THEN "VIII-IX (Severe)"
    ELSE IF intensity_value >= 6000 THEN "VI-VII (Strong)"
    ELSE IF intensity_value >= 4000 THEN "IV-V (Moderate)"
    ELSE "I-III (Minor)"

\* the intensities dict: a distance inside the crater radius only sets the
\* local variable intensity and stores nothing
SeismicIntensities(magnitude, crater_radius) ==
    LET outside == {i \in 1..Len(SeismicDistances) :
                        ~Less(Real(SeismicDistances[i]), crater_radius)}
    IN  [d \in {SeismicDistances[i] : i \in outside} |->
            LET v == IntensityValue(magnitude, d, crater_radius)
            IN  [band |-> IntensityBand(v), value |-> v]]

\* calculate_seismic_effects
calculate_seismic_effects(res) ==
    LET magnitude == SeismicMagnitude(res.effective_energy)
        crater_radius == Div(res.crater_diameter_km, Real(2))
    IN  [seismic_magnitude |-> magnitude,
         seismic_intensities |-> SeismicIntensities(magnitude, crater_radius)]

BlastDistances == <<1, 5, 10, 25, 50, 100, 250, 500>>

\* scaled_distance = distance / (energy_mt ** 0.33): a zero yield makes the
\* divisor 0.0
BlastFault(res) ==
    IF res.effective_megatons.k = "zero" THEN "ZeroDivisionError"
    ELSE IF res.effective_megatons.k # "pos" THEN "TypeError"
    ELSE "none"

\* the scaling law read the other way round: yield over range
ScaledDistanceInverted(distance, energy_mt) == Div(PowFrac(energy_mt, 33), Real(distance))

ScaledDistance(distance, energy_mt) == Div(Real(distance), PowFrac(energy_mt, 33))

\* overpressure tier of a scaled distance, psi in tenths
BlastTier(scaled_distance) ==
    IF Less(scaled_distance, Pos(-1000)) THEN
        [overpressure_psi |-> 1000, effect |-> "Complete annihilation"]
    ELSE IF Less(scaled_distance, Pos(-301)) THEN
        [overpressure_psi |-> 200, effect |-> "Reinforced concrete destroyed"]
    ELSE IF Less(scaled_distance, Pos(0)) THEN
        [overpressure_psi |-> 100, effect |-> "Heavy damage to buildings"]
    ELSE IF Less(scaled_distance, Pos(301)) THEN
        [overpressure_psi |-> 50, effect |-> "Most buildings collapse"]
    ELSE IF Less(scaled_distance, Pos(699)) THEN
        [overpressure_psi |-> 20, effect |-> "Moderate damage to structures"]
    ELSE IF Less(scaled_distance, Pos(1000)) THEN
        [overpressure_psi |-> 10, effect |-> "Window breakage"]
    ELSE
        [overpressure_psi |-> 1, effect |-> "Minor damage"]

\* calculate_blast_effects
calculate_blast_effects(res) ==
    [blast_effects |->
        [d \in {BlastDistances[i] : i \in 1..Len(BlastDistances)} |->
            BlastTier(ScaledDistance(d, res.effective_megatons))]]

ThermalDistances == <<1, 5, 10, 25, 50, 100, 250>>

\* thermal_flux = (energy_mt * 0.3 * 1e6) / (4 * pi * distance ** 2)
ThermalFlux(energy_mt, distance) ==
    Div(Mul(Mul(energy_mt, Pos(-523)), Pos(6000)),
        Mul(Pos(1099), PowInt(Real(distance), 2)))

ThermalEffect(thermal_flux) ==
    IF Greater(thermal_flux, Real(500)) THEN "Everything ignites, vaporization"
    ELSE IF Greater(thermal_flux, Real(100)) THEN "Third-degree burns, fires"
    ELSE IF Greater(thermal_flux, Pos(1602)) THEN "Second-degree burns"
    ELSE IF Greater(thermal_flux, Real(10)) THEN "First-degree burns"
    ELSE IF Greater(thermal_flux, Real(5)) THEN "Pain, minor burns"
    ELSE "No significant burns"

\* calculate_thermal_effects
calculate_thermal_effects(res) ==
    [thermal_effects |->
        [d \in {ThermalDistances[i] : i \in 1..Len(ThermalDistances)} |->
            LET thermal_flux == ThermalFlux(res.effective_megatons, d)
            IN  [thermal_flux_cal_cm2 |-> thermal_flux,
                 effect |-> ThermalEffect(thermal_flux)]]]

TsunamiDistances == <<100, 500, 1000, 2000, 5000>>

\* tsunami_speed_kmh = sqrt(9.81 * 4000) * 3.6 = 713.1
TsunamiSpeedKmh == Pos(2853)

TsunamiHazard(wave_height) ==
    IF Greater(wave_height, Real(100)) THEN "Catastrophic - mega-tsunami"
    ELSE IF Greater(wave_height, Real(50)) THEN "Extreme - regional devastation"
    ELSE IF Greater(wave_height, Real(20)) THEN "Severe - major coastal damage"
    ELSE IF Greater(wave_height, Real(10)) THEN "High - significant flooding"
    ELSE IF Greater(wave_height, Pos(477)) THEN "Moderate - coastal flooding"
    ELSE "Low - minor effects"

\* calculate_tsunami_effects, called for target_type 'water'
calculate_tsunami_effects(res) ==
    LET initial_wave_height ==
            Mul(Pos(-1000), Sqrt(Mul(res.effective_megatons, Real(1000))))
    IN  [tsunami_initial_height_m |-> initial_wave_height,
         tsunami_speed_kmh |-> TsunamiSpeedKmh,
         tsunami_effects |->
            [d \in {TsunamiDistances[i] : i \in 1..Len(TsunamiDistances)} |->
                LET wave_height ==
                        Mul(initial_wave_height, Sqrt(Div(Real(100), Real(d))))
                IN  [wave_height_m |-> wave_height,
                     arrival_time_hours |-> Div(Real(d), TsunamiSpeedKmh),
                     hazard_level |-> TsunamiHazard(wave_height)]]]

\* the climate tiers; duration in tenths of a year
CoolingEffect(energy_mt) ==
    IF Greater(energy_mt, Pos(6000)) THEN
        [cooling_effect |-> "Extinction-level event", climate_disruption_years |-> 100]
    ELSE IF Greater(energy_mt, Pos(4000)) THEN
        [cooling_effect |-> "Global winter", climate_disruption_years |-> 30]
    ELSE IF Greater(energy_mt, Real(1000)) THEN
        [cooling_effect |-> "Regional climate disruption", climate_disruption_years |-> 10]
    ELSE IF Greater(energy_mt, Real(100)) THEN
        [cooling_effect |-> "Temporary cooling", climate_disruption_years |-> 1]
    ELSE
        [cooling_effect |-> "Negligible", climate_disruption_years |-> 0]

\* calculate_atmospheric_effects
calculate_atmospheric_effects(res) ==
    LET ejecta_mass == Mul(res.crater_volume_km3, Pos(12398))
        cooling == CoolingEffect(res.effective_megatons)
    IN  [ejecta_mass_kg |-> ejecta_mass,
         atmospheric_dust_kg |-> Mul(ejecta_mass, Pos(-3000)),
         cooling_effect |-> cooling.cooling_effect,
         climate_disruption_years |-> cooling.climate_disruption_years]

EjectaDistances == <<10, 50, 100, 500>>

EjectaEffect(thickness) ==
    IF Greater(thickness, Real(100)) THEN "Buried under debris"
    ELSE IF Greater(thickness, Real(10)) THEN "Severe damage from ejecta"
    ELSE IF Greater(thickness, Real(1)) THEN "Moderate ejecta damage"
    ELSE "Light ejecta fallout"

\* calculate_ejecta_effects: only the distances below the blanket radius
calculate_ejecta_effects(res) ==
    LET crater_diameter == res.crater_diameter_km
        ejecta_radius == Mul(crater_diameter, Pos(398))
        inside == {i \in 1..Len(EjectaDistances) :
                        Less(Real(EjectaDistances[i]), ejecta_radius)}
    IN  [ejecta_blanket_radius_km |-> ejecta_radius,
         ejecta_effects |->
            [d \in {EjectaDistances[i] : i \in inside} |->
                LET thickness == Div(Mul(crater_diameter, Real(10)), Real(d + 1))
                IN  [thickness_m |-> thickness, effect |-> EjectaEffect(thickness)]]]

\* the effect methods calculate_all calls after calculate_kinetic_energy, in
\* its order
StepNames ==
    <<"crater_dimensions", "seismic_effects", "blast_effects", "thermal_effects",
      "tsunami_effects", "atmospheric_effects", "ejecta_effects">>

\* the keys of self.results a method reads
StepReads(step, prm) ==
    CASE step = "crater_dimensions" -> {"effective_megatons"}
      [] step = "seismic_effects" -> {"effective_energy", "crater_diameter_km"}
      [] step = "blast_effects" -> {"effective_megatons"}
      [] step = "thermal_effects" -> {"effective_megatons"}
      [] step = "tsunami_effects" ->
            IF prm.target_type # "water" THEN {} ELSE {"effective_megatons"}
      [] step = "atmospheric_effects" -> {"effective_megatons", "crater_volume_km3"}
      [] step = "ejecta_effects" -> {"crater_diameter_km"}

\* the exception a method raises on results that hold the keys it reads
StepFault(step, res) ==
    CASE step = "seismic_effects" -> SeismicFault(res)
      [] step = "blast_effects" -> BlastFault(res)
      [] OTHER -> "none"

\* the keys a method writes into self.results
StepWrites(step, prm, res) ==
    CASE step = "crater_dimensions" -> calculate_crater_dimensions(prm, res)
      [] step = "seismic_effects" -> calculate_seismic_effects(res)
      [] step = "blast_effects" -> calculate_blast_effects(res)
      [] step = "thermal_effects" -> calculate_thermal_effects(res)
      [] step = "tsunami_effects" ->
            IF prm.target_type # "water" THEN [x \in {} |-> 0]
            ELSE calculate_tsunami_effects(res)
      [] step = "atmospheric_effects" -> calculate_atmospheric_effects(res)
      [] step = "ejecta_effects" -> calculate_ejecta_effects(res)

\* self.results after the first n effect methods of calculate_all, for a
\* request on which none of them raises
RECURSIVE ResultsAfter(_, _)
ResultsAfter(prm, n) ==
    IF n = 0 THEN calculate_kinetic_energy(prm)
    ELSE LET res == ResultsAfter(prm, n - 1)
         IN  IF StepNames[n] = "tsunami_effects" /\ prm.target_type # "water" THEN res
             ELSE StepWrites(StepNames[n], prm, res) @@ res

\* calculate_all
calculate_all(prm) == ResultsAfter(prm, Len(StepNames))

\* classify_impact
ClassifyImpact(energy_mt) ==
    IF Greater(energy_mt, Pos(8000)) THEN "Extinction Event (K-T level)"
    ELSE IF Greater(energy_mt, Pos(6000)) THEN "Global Catastrophe"
    ELSE IF Greater(energy_mt, Pos(4000)) THEN "Continental Disaster"
    ELSE IF Greater(energy_mt, Real(1000)) THEN "Regional Catastrophe"
    ELSE IF Greater(energy_mt, Real(100)) THEN "Major Regional Impact"
    ELSE IF Greater(energy_mt, Real(10)) THEN "Significant Local Impact"
    ELSE IF Greater(energy_mt, Real(1)) THEN "Moderate Local Impact"
    ELSE "Minor Impact"

\* summarize_immediate_effects: the three formatted values
SummarizeImmediateEffects(res) ==
    [crater_km |-> res.crater_diameter_km,
     crater_depth_km |-> res.crater_depth_km,
     magnitude |-> res.seismic_magnitude,
     vaporization_km |-> Div(res.crater_diameter_km, Real(2))]

\* the ladder distances whose overpressure is at least 5 psi
SevereBlastDistances(res) ==
    {d \in DOMAIN res.blast_effects : res.blast_effects[d].overpressure_psi >= 50}

\* blast_radius is assigned only inside the loop of summarize_regional_effects:
\* with no distance at 5 psi the name is unbound when it is formatted
RegionalFault(res) ==
    IF SevereBlastDistances(res) = {} THEN "UnboundLocalError" ELSE "none"

\* summarize_regional_effects: blast_radius is the last (largest) ladder
\* distance at 5 psi or more
SummarizeRegionalEffects(res) ==
    LET blast_radius ==
            CHOOSE d \in SevereBlastDistances(res) :
                \A e \in SevereBlastDistances(res) : e <= d
        base == [blast_radius_km |-> blast_radius,
                 thermal_burns_km |-> Div(Real(blast_radius), Real(2)),
                 ejecta_blanket_km |-> res.ejecta_blanket_radius_km]
    IN  IF "tsunami_effects" \in DOMAIN res
        THEN base @@ [tsunami_arrival_hours |->
                        res.tsunami_effects[TsunamiDistances[1]].arrival_time_hours]
        ELSE base

\* summarize_global_effects
SummarizeGlobalEffects(res) ==
    (IF res.climate_disruption_years > 0
     THEN <<res.cooling_effect, res.climate_disruption_years>>
     ELSE <<>>)
    \o (IF Greater(res.effective_megatons, Real(1000))
        THEN <<"Global agricultural disruption", "Potential mass extinction event">>
        ELSE IF Greater(res.effective_megatons, Real(100))
        THEN <<"Regional agricultural failure", "Global economic disruption">>
        ELSE <<>>)

\* estimate_casualties: the note of the band
EstimateCasualties(energy_mt) ==
    IF Greater(energy_mt, Pos(6000)) THEN "Extinction-level event"
    ELSE IF Greater(energy_mt, Pos(4000)) THEN "Global catastrophe"
    ELSE IF Greater(energy_mt, Real(1000)) THEN "Depends heavily on impact location"
    ELSE IF Greater(energy_mt, Real(100)) THEN "Major regional disaster"
    ELSE "Significant local impact"

\* estimate_economic_impact: the note of the band
EstimateEconomicImpact(energy_mt) ==
    IF Greater(energy_mt, Pos(6000)) THEN "End of civilization"
    ELSE IF Greater(energy_mt, Pos(4000)) THEN "Global economic collapse"
    ELSE IF Greater(energy_mt, Real(1000)) THEN "Continental devastation"
    ELSE IF Greater(energy_mt, Real(100)) THEN "Regional catastrophe"
    ELSE "Major disaster"

\* get_summary
get_summary(res) ==
    [impact_classification |-> ClassifyImpact(res.effective_megatons),
     immediate_effects |-> SummarizeImmediateEffects(res),
     regional_effects |-> SummarizeRegionalEffects(res),
     global_effects |-> SummarizeGlobalEffects(res),
     casualties_estimate |-> EstimateCasualties(res.effective_megatons),
     economic_impact |-> EstimateEconomicImpact(res.effective_megatons)]

\* energies in hundredths of a megaton, on and around the tier boundaries
\* 0.1, 1, 10 and 100 Mt and the caps of the top tier
EnhancedEnergies ==
    {-100, 0, 5, 9, 10, 50, 99, 100, 500, 999, 1000, 5000, 9999, 10000,
     15000, 20000, 30000, 60000, 100000}

EnhancedLocations == {"ocean", "coast", "land", "city"}

\* module-level calculate_tsunami_effects(energy_mt, location): energy in
\* hundredths of a megaton, height in centimetres, range in hundredths of a km
enhanced_tsunami_effects(energy_mt, location) ==
    IF location \notin {"ocean", "coast"} THEN
        [tsunami_risk |-> "None", tsunami_height_m |-> 0, tsunami_range_km |-> 0]
    ELSE IF energy_mt < 10 THEN
        [tsunami_risk |-> "Minimal", tsunami_height_m |-> energy_mt * 10,
         tsunami_range_km |-> energy_mt * 200]
    ELSE IF energy_mt < 100 THEN
        [tsunami_risk |-> "Low", tsunami_height_m |-> energy_mt * 5,
         tsunami_range_km |-> energy_mt * 100]
    ELSE IF energy_mt < 1000 THEN
        [tsunami_risk |-> "Moderate", tsunami_height_m |-> energy_mt * 3,
         tsunami_range_km |-> energy_mt * 75]
    ELSE IF energy_mt < 10000 THEN
        [tsunami_risk |-> "High", tsunami_height_m |-> energy_mt * 2,
         tsunami_range_km |-> energy_mt * 50]
    ELSE
        [tsunami_risk |-> "Catastrophic", tsunami_height_m |-> Min2(20000, energy_mt),
         tsunami_range_km |-> Min2(1500000, energy_mt * 25)]

(***************************************************************************)
(* models/asteroid.py                                                      *)
(***************************************************************************)

\* DENSITY_TYPES
DensityTypes == [rocky |-> 3000, metallic |-> 8000, icy |-> 1000]

\* Asteroid.__init__: "density or rocky" and "angle or 45" replace a zero
\* argument by the default
AsteroidInit(diameter, velocity, density, angle, type_name) ==
    [diameter |-> diameter,
     velocity |-> velocity,
     density |-> IF type_name \in DOMAIN DensityTypes THEN DensityTypes[type_name]
                 ELSE IF density # 0 THEN density ELSE DensityTypes["rocky"],
     angle |-> IF angle # 0 THEN angle ELSE 45]

\* Asteroid.mass
AsteroidMass(a) ==
    IF a.diameter = 0 THEN Zero
    ELSE Mul(Mul(Pos(622), PowInt(Div(Real(a.diameter), Real(2)), 3)), Real(a.density))

\* mutant: the mass divided by the squared speed
AsteroidKineticEnergyPerSpeed(a) ==
    IF a.velocity = 0 THEN Zero
    ELSE Mul(Pos(-301), Div(AsteroidMass(a), PowInt(Mul(Real(a.velocity), Real(1000)), 2)))

\* Asteroid.kinetic_energy
AsteroidKineticEnergy(a) ==
    IF a.velocity = 0 THEN Zero
    ELSE Mul(Pos(-301), Mul(AsteroidMass(a), PowInt(Mul(Real(a.velocity), Real(1000)), 2)))

\* Asteroid.impact_energy: kinetic_energy * cos(angle) ** 2
AsteroidImpactEnergy(a) ==
    Mul(AsteroidKineticEnergy(a), PowInt(CosDegrees(a.angle), 2))

\* Asteroid.to_dict; tnt_equivalent = impact_energy / 4.184e15
AsteroidToDict(a) ==
    [diameter |-> a.diameter,
     radius |-> IF a.diameter # 0 THEN Div(Real(a.diameter), Real(2)) ELSE Zero,
     velocity |-> a.velocity,
     density |-> a.density,
     mass |-> AsteroidMass(a),
     angle |-> a.angle,
     kinetic_energy |-> AsteroidKineticEnergy(a),
     impact_energy |-> AsteroidImpactEnergy(a),
     tnt_equivalent |-> Div(AsteroidImpactEnergy(a), Pos(15622))]

(***************************************************************************)
(* models/impact.py and utils/calculations.py                              *)
(***************************************************************************)

\* what numpy returns for a negative float raised to a fractional power
NaN == [k |-> "nan", lg |-> 0]

\* a * b of numpy floats
NpMul(a, b) == IF a.k = "nan" \/ b.k = "nan" THEN NaN ELSE Mul(a, b)

\* a ** (num/den) of a numpy float, 0 < num/den < 1
NpPower(a, num, den) ==
    IF a.k = "nan" \/ a.k = "neg" THEN NaN
    ELSE IF a.k = "zero" THEN Zero
    ELSE Pos((a.lg * num) \div den)

\* crater_diameter: 1.161 * ((energy * sin(angle) / 10**6) ** 0.333)
crater_diameter(energy, angle) ==
    NpMul(Pos(65), NpPower(Div(Mul(energy, SinDegrees(angle)), Pos(6000)), 333, 1000))

\* air_blast_radius: k * (energy / 4.184e12) ** (1/3), k = 340, 790 or 500
air_blast_radius(energy, overpressure) ==
    NpMul(IF overpressure = 20 THEN Pos(2531)
          ELSE IF overpressure = 5 THEN Pos(2898)
          ELSE Pos(2699),
          NpPower(Div(energy, Pos(12622)), 1, 3))

\* thermal_radiation_radius: k * (energy / 4.184e12) ** 0.5
thermal_radiation_radius(energy, intensity) ==
    NpMul(IF intensity = 35 THEN Pos(2477)
          ELSE IF intensity = 20 THEN Pos(2602)
          ELSE IF intensity = 5 THEN Pos(2845)
          ELSE Pos(2699),
          NpPower(Div(energy, Pos(12622)), 1, 2))

\* ImpactSimulator._check_if_ocean: np.random.random() < 0.7
CheckIfOceanDraw == RandomUnit < 70

\* ImpactSimulator.calculate_crater
SimulatorCrater(a, is_ocean) ==
    LET dia == crater_diameter(AsteroidImpactEnergy(a), a.angle)
    IN  IF is_ocean
        THEN [temporary_diameter |-> dia, permanent_diameter |-> Zero,
              depth |-> NpMul(dia, Pos(-602))]
        ELSE [temporary_diameter |-> NpMul(dia, Pos(176)), permanent_diameter |-> dia,
              depth |-> NpMul(dia, Pos(-523))]

\* ImpactSimulator.calculate_blast_effects
SimulatorBlastEffects(a) ==
    [severe_damage_radius |-> air_blast_radius(AsteroidImpactEnergy(a), 20),
     window_breakage_radius |-> air_blast_radius(AsteroidImpactEnergy(a), 5),
     sound_intensity_radius |-> air_blast_radius(AsteroidImpactEnergy(a), 1)]

\* ImpactSimulator.calculate_thermal_effects
SimulatorThermalEffects(a) ==
    [third_degree_burns |-> thermal_radiation_radius(AsteroidImpactEnergy(a), 35),
     second_degree_burns |-> thermal_radiation_radius(AsteroidImpactEnergy(a), 20),
     first_degree_burns |-> thermal_radiation_radius(AsteroidImpactEnergy(a), 5)]

\* Python's None
None == [none |-> TRUE]

\* ImpactSimulator.calculate_tsunami: None for a land impact
SimulatorTsunami(a, is_ocean) ==
    IF ~is_ocean THEN None
    ELSE LET root == NpPower(Div(AsteroidImpactEnergy(a), Pos(15622)), 1, 4)
         IN  [initial_cavity_diameter |-> SimulatorCrater(a, is_ocean).temporary_diameter,
              wave_height_100km |-> NpMul(Pos(149), root),
              wave_height_1000km |-> NpMul(Pos(-854), root),
              arrival_time_100km |-> 450,
              arrival_time_1000km |-> 4500]

\* ImpactSimulator.calculate_impact
SimulatorImpact(a, sim) ==
    [asteroid |-> AsteroidToDict(a),
     impact_location |-> [lat |-> sim.lat, lng |-> sim.lng, is_ocean |-> sim.is_ocean],
     crater |-> SimulatorCrater(a, sim.is_ocean),
     blast_effects |-> SimulatorBlastEffects(a),
     thermal_effects |-> SimulatorThermalEffects(a),
     tsunami |-> SimulatorTsunami(a, sim.is_ocean),
     energy |-> [joules |-> AsteroidImpactEnergy(a),
                 megatons |-> Div(AsteroidImpactEnergy(a), Pos(15622))]]

(***************************************************************************)
(* models/deflection.py: success in 1e-4, cost in 0.1 M USD, distance in   *)
(* 1e-4 km, miss distance in 1e-6 Earth radii, diameter in 0.1 m, mass in  *)
(* 1e6 kg                                                                  *)
(***************************************************************************)

\* DEFLECTION_METHODS: efficiency in percent, cost factor in tenths
DEFLECTION_METHODS ==
    [kinetic |-> [efficiency |-> 80, cost_factor |-> 10,
                  min_years_needed |-> 2, max_years_effective |-> 10],
     gravity_tractor |-> [efficiency |-> 95, cost_factor |-> 25,
                          min_years_needed |-> 5, max_years_effective |-> 20],
     nuclear |-> [efficiency |-> 70, cost_factor |-> 50,
                  min_years_needed |-> 1, max_years_effective |-> 5]]

\* random.uniform(a, b) = a + (b - a) * random(), for a unit in percent
Uniform(a, b, unit) == a + ((b - a) * unit) \div 100

\* DeflectionSimulator._get_asteroid_data: three draws of the module-wide
\* generator
GetAsteroidData(asteroid_id) ==
    [id |-> asteroid_id,
     diameter |-> Uniform(500, 5000, RandomUnitAfter(0)),
     velocity |-> Uniform(15000, 30000, RandomUnitAfter(1)),
     mass |-> Uniform(1000, 1000000, RandomUnitAfter(2))]

\* DEFLECTION_METHODS.get(method, DEFLECTION_METHODS["kinetic"])
MethodParams(method) ==
    IF method \in DOMAIN DEFLECTION_METHODS THEN DEFLECTION_METHODS[method]
    ELSE DEFLECTION_METHODS["kinetic"]

\* _calculate_time_factor, in thousandths
TimeFactor(years, min_years, max_years) ==
    IF years < min_years THEN 100
    ELSE IF years > max_years THEN 1000
    ELSE 100 + (900 * (years - min_years)) \div (max_years - min_years)

\* calculate_deflection
calculate_deflection(d) ==
    LET method_params == MethodParams(d.method)
        time_factor == TimeFactor(d.years_before_impact,
                                  method_params.min_years_needed,
                                  method_params.max_years_effective)
        \* np.log10(diameter) / 2, in thousandths
        asteroid_size_factor == (Log10Milli(d.asteroid_data.diameter) - 1000) \div 2
        deflection_distance ==
            IF d.years_before_impact < method_params.min_years_needed THEN 0
            ELSE 315576 * d.years_before_impact
        miss_distance == MulDiv(deflection_distance, 1000, 63710)
    IN  [asteroid |-> d.asteroid_data,
         deflection_method |-> d.method,
         years_before_impact |-> d.years_before_impact,
         success_probability |-> (method_params.efficiency * time_factor) \div 10,
         mission_cost_millions |->
            (500 * method_params.cost_factor * asteroid_size_factor) \div 1000,
         deflection_distance_km |-> deflection_distance,
         miss_distance_earth_radii |-> miss_distance,
         is_successful |-> miss_distance > 1000000]

(***************************************************************************)
(* app.py                                                                  *)
(***************************************************************************)

\* mutant: an exception without a message
ExceptionMessageEmpty(kind) == ""

\* str(e) of the exceptions the model functions raise
ExceptionMessage(kind) ==
    CASE kind = "ZeroDivisionError" -> "float division by zero"
      [] kind = "ValueError" -> "math domain error"
      [] kind = "TypeError" ->
            "'<' not supported between instances of 'int' and 'complex'"
      [] kind = "UnboundLocalError" ->
            "cannot access local variable 'blast_radius' where it is not associated with a value"

\* return jsonify(results)
OkResponse(body) == [status |-> 200, body |-> body]

\* except Exception as e: return jsonify({"error": str(e)}), 500
ErrorResponse(kind) == [status |-> 500, body |-> [error |-> ExceptionMessage(kind)]]

(***************************************************************************)
(* State                                                                   *)
(***************************************************************************)

VARIABLES
    pc,               \* position of the request being served
    error,            \* exception raised to the caller, "none" if none
    mission,          \* MitigationCalculator.mission
    impact_date,      \* argument of compare_all_strategies
    mresults,         \* MitigationCalculator.results
    strategies,       \* strategies dict of compare_all_strategies
    rankings,         \* rankings list of compare_all_strategies
    recommendations,  \* result of generate_recommendations
    comparison,       \* value returned by compare_all_strategies
    params,           \* ImpactPhysicsCalculator.params
    results,          \* ImpactPhysicsCalculator.results
    impact,           \* value returned by calculate_impact
    asteroid_args,    \* arguments of Asteroid(...)
    asteroid,         \* the Asteroid object
    asteroid_dict,    \* value returned by Asteroid.to_dict
    route,            \* Flask route serving the request, "none" for a library call
    response,         \* (body, status) returned by the route
    simulator,        \* the ImpactSimulator or DeflectionSimulator object
    simulation,       \* value returned by its calculate_impact / calculate_deflection
    called            \* methods a caller has run on a calculator of its own

mitigation_vars == <<mission, impact_date, mresults, strategies, rankings,
                     recommendations, comparison>>

impact_vars == <<params, results, impact>>

asteroid_vars == <<asteroid_args, asteroid, asteroid_dict>>

http_vars == <<route, response>>

legacy_vars == <<simulator, simulation>>

VARIABLE
    enhanced          \* call and result of the module-level calculate_tsunami_effects

vars == <<pc, error, mitigation_vars, impact_vars, asteroid_vars, http_vars,
          env_vars, legacy_vars, called, enhanced>>

NoRecord == [x \in {} |-> 0]

Init ==
    /\ pc = "idle"
    /\ enhanced = NoRecord
    /\ error = "none"
    /\ mission = NoRecord
    /\ impact_date = 0
    /\ mresults = NoRecord
    /\ strategies = NoRecord
    /\ rankings = <<>>
    /\ recommendations = NoRecord
    /\ comparison = NoRecord
    /\ params = NoRecord
    /\ results = NoRecord
    /\ impact = NoRecord
    /\ asteroid_args = NoRecord
    /\ asteroid = NoRecord
    /\ asteroid_dict = NoRecord
    /\ route = "none"
    /\ response = NoRecord
    /\ rng = 0
    /\ first = NoRecord
    /\ simulator = NoRecord
    /\ simulation = NoRecord
    /\ called = {}

Raise(kind) == pc' = "fault" /\ error' = kind

\* simulate_deflection_scenario: mass from the diameter at density 3000,
\* launch date = impact date - warning time, then compare_all_strategies
SimulateDeflectionScenario ==
    /\ pc = "idle"
    /\ \E d \in Diameters, w \in WarningTimes, dur \in MissionDurations,
          date \in ImpactDates :
          /\ mission' = DeflectionMission("kinetic_impactor", date - w, d, 20,
                                          SphereMass(d), w, dur)
          /\ impact_date' = date
    /\ pc' = "required_deflection"
    /\ UNCHANGED <<error, mresults, strategies, rankings, recommendations, comparison, impact_vars, asteroid_vars, http_vars, env_vars, legacy_vars, called, enhanced>>

\* MitigationCalculator(mission).compare_all_strategies(impact_date) on a
\* mission built by the caller
CompareAllStrategies ==
    /\ pc = "idle"
    /\ \E d \in DirectDiameters, mass \in DirectMasses, launch \in DirectLaunchDates,
          w \in DirectWarningTimes, date \in ImpactDates :
          /\ mission' = DeflectionMission("comparison", launch, d, 20, mass, w, 500)
          /\ impact_date' = date
    /\ pc' = "required_deflection"
    /\ UNCHANGED <<error, mresults, strategies, rankings, recommendations, comparison, impact_vars, asteroid_vars, http_vars, env_vars, legacy_vars, called, enhanced>>

\* calculate_required_deflection
CalculateRequiredDeflection ==
    /\ pc = "required_deflection"
    /\ LET time_years == TimeYears(mission, impact_date)
       IN  IF time_years = 0
           THEN Raise("ZeroDivisionError") /\ UNCHANGED mresults
           ELSE /\ mresults' = [required_delta_v_ms |-> RequiredDeltaV(time_years),
                                warning_time_years |-> time_years]
                /\ pc' = "kinetic_impactor"
                /\ UNCHANGED error
    /\ UNCHANGED <<mission, impact_date, strategies, rankings, recommendations, comparison, impact_vars, asteroid_vars, http_vars, env_vars, legacy_vars, called, enhanced>>

\* strategies['kinetic_impactor'] = self.kinetic_impactor_deflection()
KineticImpactorDeflection ==
    /\ pc = "kinetic_impactor"
    /\ IF mission.asteroid_mass = 0
       THEN Raise("ZeroDivisionError") /\ UNCHANGED strategies
       ELSE /\ strategies' = ("kinetic_impactor" :> kinetic_impactor_deflection(mission))
            /\ pc' = "gravity_tractor"
            /\ UNCHANGED error
    /\ UNCHANGED <<mission, impact_date, mresults, rankings, recommendations, comparison, impact_vars, asteroid_vars, http_vars, env_vars, legacy_vars, called, enhanced>>

GravityTractorDeflection ==
    /\ pc = "gravity_tractor"
    /\ strategies' = strategies @@ ("gravity_tractor" :> gravity_tractor_deflection(mission))
    /\ pc' = "nuclear"
    /\ UNCHANGED <<error, mission, impact_date, mresults, rankings, recommendations, comparison, impact_vars, asteroid_vars, http_vars, env_vars, legacy_vars, called, enhanced>>

NuclearDeflection ==
    /\ pc = "nuclear"
    /\ strategies' = strategies @@ ("nuclear" :> nuclear_deflection(mission))
    /\ pc' = "laser_ablation"
    /\ UNCHANGED <<error, mission, impact_date, mresults, rankings, recommendations, comparison, impact_vars, asteroid_vars, http_vars, env_vars, legacy_vars, called, enhanced>>

LaserAblationDeflection ==
    /\ pc = "laser_ablation"
    /\ IF LaserFault(mission) # "none"
       THEN Raise(LaserFault(mission)) /\ UNCHANGED strategies
       ELSE /\ strategies' = strategies @@ ("laser_ablation" :> laser_ablation_deflection(mission))
            /\ pc' = "ion_beam"
            /\ UNCHANGED error
    /\ UNCHANGED <<mission, impact_date, mresults, rankings, recommendations, comparison, impact_vars, asteroid_vars, http_vars, env_vars, legacy_vars, called, enhanced>>

IonBeamDeflection ==
    /\ pc = "ion_beam"
    /\ strategies' = strategies @@ ("ion_beam" :> ion_beam_deflection(mission))
    /\ pc' = "rank"
    /\ UNCHANGED <<error, mission, impact_date, mresults, rankings, recommendations, comparison, impact_vars, asteroid_vars, http_vars, env_vars, legacy_vars, called, enhanced>>

\* the scoring loop and rankings.sort of compare_all_strategies
RankStrategies ==
    /\ pc = "rank"
    /\ rankings' = SortByScore(UnsortedRankings(strategies, mresults.required_delta_v_ms))
    /\ pc' = "recommend"
    /\ UNCHANGED <<error, mission, impact_date, mresults, strategies, recommendations, comparison, impact_vars, asteroid_vars, http_vars, env_vars, legacy_vars, called, enhanced>>

\* recommendations = self.generate_recommendations(rankings, required_dv)
GenerateRecommendations ==
    /\ pc = "recommend"
    /\ recommendations' = generate_recommendations(mission, rankings)
    /\ pc' = "return_comparison"
    /\ UNCHANGED <<error, mission, impact_date, mresults, strategies, rankings, comparison, impact_vars, asteroid_vars, http_vars, env_vars, legacy_vars, called, enhanced>>

\* the dict returned by compare_all_strategies
ReturnComparison ==
    /\ pc = "return_comparison"
    /\ comparison' = [required_deflection_ms |-> mresults.required_delta_v_ms,
                      warning_time_years |-> mission.warning_time_years,
                      strategies |-> strategies,
                      rankings |-> rankings,
                      recommendations |-> recommendations]
    /\ pc' = "compared"
    /\ UNCHANGED <<error, mission, impact_date, mresults, strategies, rankings, recommendations, impact_vars, asteroid_vars, http_vars, env_vars, legacy_vars, called, enhanced>>

\* calculate_impact: ImpactParameters and a fresh ImpactPhysicsCalculator
CalculateImpact ==
    /\ pc = "idle"
    /\ \E d \in ImpactDiameters, v \in ImpactVelocities, rho \in ImpactDensities,
          angle \in ImpactAngles, target \in TargetTypes :
          params' = ImpactParameters(d, v, rho, angle, target)
    /\ pc' = "kinetic_energy"
    /\ UNCHANGED <<error, results, impact, mitigation_vars, asteroid_vars, http_vars, env_vars, legacy_vars, called, enhanced>>

CalculateKineticEnergy ==
    /\ pc = "kinetic_energy"
    /\ results' = calculate_kinetic_energy(params)
    /\ pc' = "crater_dimensions"
    /\ UNCHANGED <<error, params, impact, mitigation_vars, asteroid_vars, http_vars, env_vars, legacy_vars, called, enhanced>>

CalculateCraterDimensions ==
    /\ pc = "crater_dimensions"
    /\ results' = results @@ calculate_crater_dimensions(params, results)
    /\ pc' = "seismic_effects"
    /\ UNCHANGED <<error, params, impact, mitigation_vars, asteroid_vars, http_vars, env_vars, legacy_vars, called, enhanced>>

CalculateSeismicEffects ==
    /\ pc = "seismic_effects"
    /\ IF SeismicFault(results) # "none"
       THEN Raise(SeismicFault(results)) /\ UNCHANGED results
       ELSE /\ results' = results @@ calculate_seismic_effects(results)
            /\ pc' = "blast_effects"
            /\ UNCHANGED error
    /\ UNCHANGED <<params, impact, mitigation_vars, asteroid_vars, http_vars, env_vars, legacy_vars, called, enhanced>>

CalculateBlastEffects ==
    /\ pc = "blast_effects"
    /\ IF BlastFault(results) # "none"
       THEN Raise(BlastFault(results)) /\ UNCHANGED results
       ELSE /\ results' = results @@ calculate_blast_effects(results)
            /\ pc' = "thermal_effects"
            /\ UNCHANGED error
    /\ UNCHANGED <<params, impact, mitigation_vars, asteroid_vars, http_vars, env_vars, legacy_vars, called, enhanced>>

\* calculate_thermal_effects, then the test of calculate_all that decides
\* whether calculate_tsunami_effects is called
CalculateThermalEffects ==
    /\ pc = "thermal_effects"
    /\ results' = results @@ calculate_thermal_effects(results)
    /\ pc' = IF params.target_type = "water" THEN "tsunami_effects"
             ELSE "atmospheric_effects"
    /\ UNCHANGED <<error, params, impact, mitigation_vars, asteroid_vars, http_vars, env_vars, legacy_vars, called, enhanced>>

CalculateTsunamiEffects ==
    /\ pc = "tsunami_effects"
    /\ results' = IF params.target_type # "water" THEN results
                  ELSE results @@ calculate_tsunami_effects(results)
    /\ pc' = "atmospheric_effects"
    /\ UNCHANGED <<error, params, impact, mitigation_vars, asteroid_vars, http_vars, env_vars, legacy_vars, called, enhanced>>

CalculateAtmosphericEffects ==
    /\ pc = "atmospheric_effects"
    /\ results' = results @@ calculate_atmospheric_effects(results)
    /\ pc' = "ejecta_effects"
    /\ UNCHANGED <<error, params, impact, mitigation_vars, asteroid_vars, http_vars, env_vars, legacy_vars, called, enhanced>>

CalculateEjectaEffects ==
    /\ pc = "ejecta_effects"
    /\ results' = results @@ calculate_ejecta_effects(results)
    /\ pc' = "summary"
    /\ UNCHANGED <<error, params, impact, mitigation_vars, asteroid_vars, http_vars, env_vars, legacy_vars, called, enhanced>>

\* summary = calculator.get_summary() and the dict calculate_impact returns
GetSummary ==
    /\ pc = "summary"
    /\ IF RegionalFault(results) # "none"
       THEN Raise(RegionalFault(results)) /\ UNCHANGED impact
       ELSE /\ impact' = [parameters |-> params,
                          calculations |-> results,
                          summary |-> get_summary(results)]
            /\ pc' = "evaluated"
            /\ UNCHANGED error
    /\ UNCHANGED <<params, results, mitigation_vars, asteroid_vars, http_vars, env_vars, legacy_vars, called, enhanced>>

\* Asteroid(diameter, velocity, density, angle, type_name)
NewAsteroid ==
    /\ pc = "idle"
    /\ \E d \in ImpactDiameters, v \in ImpactVelocities, rho \in ImpactDensities,
          angle \in ImpactAngles, type_name \in AsteroidTypeNames :
          /\ asteroid_args' = [diameter |-> d, velocity |-> v, density |-> rho,
                               angle |-> angle, type_name |-> type_name]
          /\ asteroid' = AsteroidInit(d, v, rho, angle, type_name)
    /\ pc' = "asteroid"
    /\ UNCHANGED <<error, asteroid_dict, mitigation_vars, impact_vars, http_vars, env_vars, legacy_vars, called, enhanced>>

\* asteroid.to_dict()
ToDict ==
    /\ pc = "asteroid"
    /\ asteroid_dict' = AsteroidToDict(asteroid)
    /\ pc' = "asteroid_dict"
    /\ UNCHANGED <<error, asteroid_args, asteroid, mitigation_vars, impact_vars, http_vars, env_vars, legacy_vars, called, enhanced>>

\* POST /api/impact/calculate: calc_impact_physics(diameter, velocity,
\* density, angle, target_type) inside the try block
CalculateImpactPhysics ==
    /\ pc = "idle"
    /\ \E d \in ImpactDiameters, v \in ImpactVelocities, rho \in ImpactDensities,
          angle \in ImpactAngles, target \in TargetTypes :
          params' = ImpactParameters(d, v, rho, angle, target)
    /\ route' = "/api/impact/calculate"
    /\ pc' = "kinetic_energy"
    /\ UNCHANGED <<error, results, impact, response, mitigation_vars, asteroid_vars, env_vars, legacy_vars, called, enhanced>>

\* POST /api/deflection/simulate: simulate_deflection_scenario inside the
\* try block
SimulateDeflection ==
    /\ pc = "idle"
    /\ \E d \in Diameters, w \in WarningTimes, dur \in MissionDurations,
          date \in ImpactDates :
          /\ mission' = DeflectionMission("kinetic_impactor", date - w, d, 15,
                                          SphereMass(d), w, dur)
          /\ impact_date' = date
    /\ route' = "/api/deflection/simulate"
    /\ pc' = "required_deflection"
    /\ UNCHANGED <<error, mresults, strategies, rankings, recommendations,
                   comparison, response, impact_vars, asteroid_vars, env_vars, legacy_vars, called, enhanced>>

\* POST /api/deflection/compare: a mission of strategy 'comparison' with
\* mission_duration_years=5, then compare_all_strategies, inside the try block
CompareDeflectionStrategies ==
    /\ pc = "idle"
    /\ \E d \in Diameters, w \in WarningTimes, date \in ImpactDates :
          /\ mission' = DeflectionMission("comparison", date - w, d, 15,
                                          SphereMass(d), w, 500)
          /\ impact_date' = date
    /\ route' = "/api/deflection/compare"
    /\ pc' = "required_deflection"
    /\ UNCHANGED <<error, mresults, strategies, rankings, recommendations,
                   comparison, response, impact_vars, asteroid_vars, env_vars, legacy_vars, called, enhanced>>

\* return jsonify(results) / return jsonify(comparison)
JsonifyResults ==
    /\ route # "none"
    /\ pc \in {"evaluated", "compared"}
    /\ response' = OkResponse(IF pc = "evaluated" THEN impact ELSE comparison)
    /\ pc' = "responded"
    /\ UNCHANGED <<error, route, mitigation_vars, impact_vars, asteroid_vars, env_vars, legacy_vars, called, enhanced>>

\* the except clause of the route: the calculator and what it had computed
\* are local to the try block
JsonifyError ==
    /\ route # "none"
    /\ pc = "fault"
    /\ response' = ErrorResponse(error)
    /\ pc' = "responded"
    /\ UNCHANGED <<error, route, mitigation_vars, impact_vars, asteroid_vars, env_vars, legacy_vars, called, enhanced>>

\* what a library call hands back: the returned value or the raised exception
Outcome == [pc |-> pc, error |-> error, impact |-> impact, comparison |-> comparison]

\* a second call of calculate_impact, simulate_deflection_scenario or
\* compare_all_strategies with the arguments of the call that just ended: new
\* ImpactParameters or DeflectionMission of the same values, a new calculator
\* with results = {}; the random generators may have been used in between
Repeat ==
    /\ route = "none"
    /\ first = NoRecord
    /\ called = {}
    /\ pc \in {"evaluated", "compared", "fault"}
    /\ first' = Outcome
    /\ \E r \in RngStates : rng' = r
    /\ pc' = IF params # NoRecord THEN "kinetic_energy" ELSE "required_deflection"
    /\ error' = "none"
    /\ results' = NoRecord
    /\ impact' = NoRecord
    /\ mresults' = NoRecord
    /\ strategies' = NoRecord
    /\ rankings' = <<>>
    /\ recommendations' = NoRecord
    /\ comparison' = NoRecord
    /\ UNCHANGED <<params, mission, impact_date, asteroid_vars, http_vars, legacy_vars, called, enhanced>>

\* ImpactSimulator(asteroid, lat, lng): the fields __init__ stores
NewImpactSimulator ==
    /\ pc = "asteroid"
    /\ \E lat \in Latitudes, lng \in Longitudes :
          simulator' = [lat |-> lat, lng |-> lng]
    /\ pc' = "check_if_ocean"
    /\ UNCHANGED <<error, simulation, rng, first, mitigation_vars, impact_vars,
                   asteroid_vars, http_vars, called, enhanced>>

\* self.is_ocean = self._check_if_ocean(): one draw of np.random
CheckIfOcean ==
    /\ pc = "check_if_ocean"
    /\ simulator' = [lat |-> simulator.lat, lng |-> simulator.lng,
                     is_ocean |-> CheckIfOceanDraw]
    /\ rng' = NextRng
    /\ pc' = "simulator"
    /\ UNCHANGED <<error, simulation, first, mitigation_vars, impact_vars,
                   asteroid_vars, http_vars, called, enhanced>>

\* simulator.calculate_impact()
SimulatorCalculateImpact ==
    /\ pc = "simulator"
    /\ simulation' = SimulatorImpact(asteroid, simulator)
    /\ pc' = "simulated"
    /\ UNCHANGED <<error, simulator, env_vars, mitigation_vars, impact_vars,
                   asteroid_vars, http_vars, called, enhanced>>

\* DeflectionSimulator(asteroid_id, method, years_before_impact): the fields
\* __init__ stores
NewDeflectionSimulator ==
    /\ pc = "idle"
    /\ \E id \in AsteroidIds, method \in DeflectionMethods, years \in YearsBeforeImpact :
          simulator' = [asteroid_id |-> id, method |-> method,
                        years_before_impact |-> years]
    /\ pc' = "get_asteroid_data"
    /\ UNCHANGED <<error, simulation, env_vars, mitigation_vars, impact_vars,
                   asteroid_vars, http_vars, called, enhanced>>

\* self.asteroid_data = self._get_asteroid_data(): three draws of random
GetAsteroidDataStep ==
    /\ pc = "get_asteroid_data"
    /\ simulator' = [asteroid_id |-> simulator.asteroid_id,
                     method |-> simulator.method,
                     years_before_impact |-> simulator.years_before_impact,
                     asteroid_data |-> GetAsteroidData(simulator.asteroid_id)]
    /\ rng' = (rng + 3) % 2
    /\ pc' = "deflector"
    /\ UNCHANGED <<error, simulation, first, mitigation_vars, impact_vars,
                   asteroid_vars, http_vars, called, enhanced>>

\* deflector.calculate_deflection()
CalculateDeflection ==
    /\ pc = "deflector"
    /\ simulation' = calculate_deflection(simulator)
    /\ pc' = "deflected"
    /\ UNCHANGED <<error, simulator, env_vars, mitigation_vars, impact_vars,
                   asteroid_vars, http_vars, called, enhanced>>

\* a second ImpactSimulator(...).calculate_impact() or
\* DeflectionSimulator(...).calculate_deflection() with the arguments of the
\* call that just ended
RepeatSimulation ==
    /\ first = NoRecord
    /\ pc \in {"simulated", "deflected"}
    /\ first' = [simulation |-> simulation]
    /\ simulation' = NoRecord
    /\ IF pc = "simulated"
       THEN /\ simulator' = [lat |-> simulator.lat, lng |-> simulator.lng]
            /\ pc' = "check_if_ocean"
       ELSE /\ simulator' = [asteroid_id |-> simulator.asteroid_id,
                             method |-> simulator.method,
                             years_before_impact |-> simulator.years_before_impact]
            /\ pc' = "get_asteroid_data"
    /\ UNCHANGED <<error, rng, mitigation_vars, impact_vars, asteroid_vars, http_vars, called, enhanced>>

\* a caller builds ImpactPhysicsCalculator(params) and runs
\* calculate_kinetic_energy, before running the effect methods itself
NewCalculator ==
    /\ pc = "idle"
    /\ \E d \in CalculatorDiameters, target \in CalculatorTargets :
          /\ params' = ImpactParameters(d, 20, 3000, 45, target)
          /\ results' = calculate_kinetic_energy(ImpactParameters(d, 20, 3000, 45, target))
    /\ called' = {"kinetic_energy"}
    /\ pc' = "calculator"
    /\ UNCHANGED <<error, impact, mitigation_vars, asteroid_vars, http_vars,
                   env_vars, legacy_vars, enhanced>>

\* the caller runs one of the effect methods it has not run yet: a key the
\* method reads and no earlier method wrote is a KeyError
CalculatorStep ==
    /\ pc = "calculator"
    /\ \E i \in 1..Len(StepNames) :
          LET step == StepNames[i]
          IN  /\ step \notin called
              /\ IF ~(StepReads(step, params) \subseteq DOMAIN results)
                 THEN Raise("KeyError") /\ UNCHANGED <<results, called>>
                 ELSE IF StepFault(step, results) # "none"
                 THEN Raise(StepFault(step, results)) /\ UNCHANGED <<results, called>>
                 ELSE /\ results' = StepWrites(step, params, results) @@ results
                      /\ called' = called \cup {step}
                      /\ pc' = IF called \cup {step} =
                                  {"kinetic_energy"} \cup {StepNames[j] : j \in 1..Len(StepNames)}
                               THEN "calculated" ELSE "calculator"
                      /\ UNCHANGED error
    /\ UNCHANGED <<params, impact, mitigation_vars, asteroid_vars, http_vars,
                   env_vars, legacy_vars, enhanced>>

\* calculate_tsunami_effects(energy_mt, location), the module-level function
\* of the enhanced impact path
EnhancedTsunamiEffects ==
    /\ pc = "idle"
    /\ \E energy_mt \in EnhancedEnergies, location \in EnhancedLocations :
          enhanced' = [energy_mt |-> energy_mt, location |-> location] @@
                      enhanced_tsunami_effects(energy_mt, location)
    /\ pc' = "tsunami_assessed"
    /\ UNCHANGED <<error, mitigation_vars, impact_vars, asteroid_vars, http_vars,
                   env_vars, legacy_vars, called>>

Next ==
    \/ SimulateDeflectionScenario
    \/ CompareAllStrategies
    \/ CalculateRequiredDeflection
    \/ KineticImpactorDeflection
    \/ GravityTractorDeflection
    \/ NuclearDeflection
    \/ LaserAblationDeflection
    \/ IonBeamDeflection
    \/ RankStrategies
    \/ GenerateRecommendations
    \/ ReturnComparison
    \/ CalculateImpact
    \/ CalculateKineticEnergy
    \/ CalculateCraterDimensions
    \/ CalculateSeismicEffects
    \/ CalculateBlastEffects
    \/ CalculateThermalEffects
    \/ CalculateTsunamiEffects
    \/ CalculateAtmosphericEffects
    \/ CalculateEjectaEffects
    \/ GetSummary
    \/ NewAsteroid
    \/ ToDict
    \/ CalculateImpactPhysics
    \/ SimulateDeflection
    \/ CompareDeflectionStrategies
    \/ JsonifyResults
    \/ JsonifyError
    \/ Repeat
    \/ NewImpactSimulator
    \/ CheckIfOcean
    \/ SimulatorCalculateImpact
    \/ NewDeflectionSimulator
    \/ GetAsteroidDataStep
    \/ CalculateDeflection
    \/ RepeatSimulation
    \/ NewCalculator
    \/ CalculatorStep
    \/ EnhancedTsunamiEffects

Spec == Init /\ [][Next]_vars

(***************************************************************************)
(* Properties                                                              *)
(***************************************************************************)

\* a comparison has been returned to the caller
Compared == pc = "compared"

\* position of a strategy key in the evaluation order
EvaluationIndex(name) == CHOOSE i \in 1..Len(StrategyOrder) : StrategyOrder[i] = name

\* position of a strategy key in a ranked list
RankOf(ranks, name) == CHOOSE i \in 1..Len(ranks) : ranks[i].strategy = name

SomeSufficient(ranks) == \E i \in 1..Len(ranks) : ranks[i].is_sufficient

\* C1: in the output of compare_all_strategies with a required delta-v > 0,
\* each of the five ranking entries has is_sufficient true if and only if
\* that strategy's delta_v_ms is at least the required delta-v (ratio >= 1.0).
C1_SufficientIffRatioAtLeastOne ==
    (Compared /\ comparison.required_deflection_ms > 0) =>
        /\ Len(comparison.rankings) = 5
        /\ \A i \in 1..Len(comparison.rankings) :
              LET e == comparison.rankings[i]
              IN  e.is_sufficient <=>
                    (comparison.strategies[e.strategy].delta_v_ms
                        >= comparison.required_deflection_ms)

\* a comparison with a positive required delta-v in which some strategy is
\* sufficient and some other is not
C1_Witness ==
    /\ Compared
    /\ comparison.required_deflection_ms > 0
    /\ \E i, j \in 1..Len(comparison.rankings) :
          /\ comparison.rankings[i].is_sufficient
          /\ ~comparison.rankings[j].is_sufficient

\* C2: the rankings list of every comparison is a permutation of the five
\* canonical strategy keys, in order of non-increasing score, entries of equal
\* score keeping the evaluation order.
C2_RankingsStablePermutation ==
    Compared =>
        LET r == comparison.rankings
        IN  /\ Len(r) = 5
            /\ \A k \in StrategyKeys : Cardinality({i \in 1..Len(r) : r[i].strategy = k}) = 1
            /\ \A i, j \in 1..Len(r) :
                  i < j =>
                    /\ r[i].score >= r[j].score
                    /\ r[i].score = r[j].score =>
                          EvaluationIndex(r[i].strategy) < EvaluationIndex(r[j].strategy)

\* a comparison whose ranking differs from the evaluation order and holds two
\* entries of equal score
C2_Witness ==
    /\ Compared
    /\ \E i \in 1..5 : comparison.rankings[i].strategy # StrategyOrder[i]
    /\ \E i, j \in 1..5 :
          i < j /\ comparison.rankings[i].score = comparison.rankings[j].score

\* C3: the status is INSUFFICIENT iff no ranking entry is sufficient;
\* otherwise it is URGENT below 5 years of warning, ADEQUATE from 5 to below
\* 15, OPTIMAL from 15, whatever the score order.
C3_StatusBuckets ==
    Compared =>
        LET r == comparison.rankings
            w == comparison.warning_time_years
            status == comparison.recommendations.status
        IN  /\ status = "INSUFFICIENT" <=> ~SomeSufficient(r)
            /\ SomeSufficient(r) =>
                  /\ w < 500 => status = "URGENT"
                  /\ (500 <= w /\ w < 1500) => status = "ADEQUATE"
                  /\ w >= 1500 => status = "OPTIMAL"

\* an ADEQUATE recommendation at exactly 5 years of warning whose top-ranked
\* entry is not the kinetic impactor it names
C3_Witness ==
    /\ Compared
    /\ comparison.warning_time_years = 500
    /\ comparison.recommendations.status = "ADEQUATE"
    /\ comparison.rankings[1].strategy # "kinetic_impactor"

\* C4: in an URGENT recommendation the primary strategy is nuclear when
\* nuclear is the highest-ranked sufficient strategy and kinetic_impactor in
\* every other case.
C4_UrgentPrimaryNuclearOrKinetic ==
    (Compared /\ comparison.recommendations.status = "URGENT") =>
        LET best == SufficientStrategies(comparison.rankings)[1].strategy
        IN  comparison.recommendations.primary_strategy =
                (IF best = "nuclear" THEN "nuclear" ELSE "kinetic_impactor")

\* C5: in an URGENT recommendation the backups are the two strategies ranked
\* immediately after the primary strategy, in ranking order, and the primary
\* strategy is not among them.
C5_UrgentBackupsFollowPrimary ==
    (Compared /\ comparison.recommendations.status = "URGENT") =>
        LET r == comparison.rankings
            rec == comparison.recommendations
            p == RankOf(r, rec.primary_strategy)
        IN  /\ p + 2 <= Len(r)
            /\ rec.backup_strategies = <<r[p + 1].strategy, r[p + 2].strategy>>
            /\ \A i \in 1..Len(rec.backup_strategies) :
                  rec.backup_strategies[i] # rec.primary_strategy

\* an impact evaluation has returned its record
Evaluated == pc = "evaluated"

TsunamiFields == {"tsunami_effects", "tsunami_initial_height_m", "tsunami_speed_kmh"}

WaterLike == {"water", "ocean", "coast"}

\* C6: the result of an impact evaluation holds the tsunami fields
\* (tsunami_effects, tsunami_initial_height_m, tsunami_speed_kmh) if and only
\* if the target type is water, ocean or coast; for land they are absent.
C6_TsunamiFieldsIffWaterLike ==
    Evaluated =>
        /\ impact.parameters.target_type \in WaterLike =>
              TsunamiFields \subseteq DOMAIN impact.calculations
        /\ impact.parameters.target_type \notin WaterLike =>
              TsunamiFields \cap DOMAIN impact.calculations = {}

\* C7: an impact evaluation whose diameter, velocity or density is <= 0 is
\* rejected before any derived quantity is computed: no default is
\* substituted for the argument and no effect record is produced.
C7_NonPositiveInputRejected ==
    /\ (params # NoRecord
          /\ (params.diameter <= 0 \/ params.velocity <= 0 \/ params.density <= 0)) =>
          /\ results = NoRecord
          /\ impact = NoRecord
    /\ (asteroid # NoRecord /\ asteroid_args.type_name \notin DOMAIN DensityTypes) =>
          asteroid.density = asteroid_args.density

\* min(90, max(0, angle))
ClampAngle(angle) == Min2(90, Max2(0, angle))

\* C8: the angle used for the energy adjustment always equals
\* min(90, max(0, given angle)): outside [0,90] it is clamped, inside [0,90],
\* 0 included, it is used unchanged.
C8_AngleClamped ==
    /\ "effective_energy" \in DOMAIN results =>
          results.effective_energy =
              Mul(results.kinetic_energy_joules, SinDegrees(ClampAngle(params.angle)))
    /\ asteroid # NoRecord => asteroid.angle = ClampAngle(asteroid_args.angle)

\* C9: a comparison whose impact date is not after the launch date, or whose
\* warning time is not positive, is rejected before the required delta-v is
\* computed and returns neither comparison nor recommendation.
C9_InvalidScheduleRejected ==
    (mission # NoRecord
        /\ (TimeYears(mission, impact_date) <= 0 \/ mission.warning_time_years <= 0)) =>
        /\ mresults = NoRecord
        /\ recommendations = NoRecord
        /\ comparison = NoRecord

\* diameter, velocity and density positive, angle in [0,90], target land or water
WellFormed(prm) ==
    /\ prm.diameter > 0
    /\ prm.velocity > 0
    /\ prm.density > 0
    /\ prm.angle >= 0
    /\ prm.angle <= 90
    /\ prm.target_type \in {"land", "water"}

\* C10: for a well-formed impact request (positive diameter, velocity and
\* density, angle in [0,90] with both boundary angles, target land or water,
\* any size of impactor) calculate_impact raises no runtime fault, and the
\* record it returns holds parameters, calculations and summary.
C10_WellFormedRequestCompletes ==
    (params # NoRecord /\ WellFormed(params)) =>
        /\ pc # "fault"
        /\ Evaluated => DOMAIN impact = {"parameters", "calculations", "summary"}

\* asteroid diameter, velocity and warning time positive, mission duration
\* not negative
WellFormedMission(m) ==
    /\ m.asteroid_diameter > 0
    /\ m.asteroid_velocity > 0
    /\ m.warning_time_years > 0
    /\ m.mission_duration_years >= 0

\* C11: for a well-formed deflection comparison request (diameter, velocity
\* and warning years positive, mission duration >= 0) the five strategy models
\* raise no runtime fault, whatever the ratio of laser-ablated mass to
\* asteroid mass, and the strategies map of the comparison has exactly the
\* five canonical keys.
C11_WellFormedComparisonCompletes ==
    (mission # NoRecord /\ mission.strategy = "kinetic_impactor"
        /\ WellFormedMission(mission)) =>
        /\ pc # "fault"
        /\ Compared => DOMAIN comparison.strategies = StrategyKeys

\* a route has returned its response
Responded == pc = "responded"

\* C12: when an impact or deflection evaluation fails, the caller receives
\* only a structured failure holding a human-readable error message, and no
\* part of the effect record or comparison; a response that is not a failure
\* holds the whole record or comparison.
C12_FailureIsAllOrNothing ==
    Responded =>
        IF error # "none"
        THEN /\ response.status = 500
             /\ DOMAIN response.body = {"error"}
             /\ response.body.error # ""
             /\ impact = NoRecord
             /\ comparison = NoRecord
        ELSE /\ response.status = 200
             /\ response.body \in {impact, comparison}
             /\ response.body # NoRecord

\* a failed impact request that had computed energy and crater, or a failed
\* deflection request that had evaluated strategies, answered by its route
C12_Witness ==
    /\ Responded
    /\ error # "none"
    /\ \/ route = "/api/impact/calculate" /\ "crater_diameter_km" \in DOMAIN results
       \/ route = "/api/deflection/compare" /\ "nuclear" \in DOMAIN strategies

\* C13: every result of the five strategy models on valid input has its
\* success_probability (and the nuclear fragmentation_risk) in [0,1] and its
\* delta_v_ms, deflection_distance_km and mission_cost_million_usd >= 0.
C13_StrategyResultsInRange ==
    (mission # NoRecord /\ WellFormedMission(mission)) =>
        \A k \in DOMAIN strategies :
            LET r == strategies[k]
            IN  /\ r.success_probability >= 0
                /\ r.success_probability <= 100
                /\ "fragmentation_risk" \in DOMAIN r =>
                      (r.fragmentation_risk >= 0 /\ r.fragmentation_risk <= 100)
                /\ r.delta_v_ms >= 0
                /\ r.deflection_distance_km >= 0
                /\ r.mission_cost_million_usd >= 0

\* a valid mission whose five strategies were evaluated, laser ablation
\* with a positive delta-v among them
C13_Witness ==
    /\ mission # NoRecord
    /\ WellFormedMission(mission)
    /\ DOMAIN strategies = StrategyKeys
    /\ strategies["laser_ablation"].delta_v_ms > 0
    /\ strategies["kinetic_impactor"].deflection_distance_km > 0

\* C14: two evaluations of calculate_impact with identical inputs, and two of
\* simulate_deflection_scenario with identical inputs, return identical
\* outputs: the second call ends as the first did, with the same record,
\* comparison or exception.
C14_RepeatedEvaluationIdentical ==
    (first # NoRecord /\ pc \in {"evaluated", "compared", "fault"}) =>
        Outcome = first

\* a second evaluation that has returned its record or comparison after the
\* generator state changed
C14_Witness ==
    /\ first # NoRecord
    /\ rng # 0
    /\ pc \in {"evaluated", "compared"}

\* C15: no impact or deflection model function draws random values:
\* ImpactSimulator.calculate_impact and DeflectionSimulator.calculate_deflection
\* give the same result (ocean/land determination, tsunami presence and
\* asteroid data included) for the same explicit inputs.
C15_SimulatorsDeterministic ==
    (first # NoRecord /\ pc \in {"simulated", "deflected"}) =>
        simulation = first.simulation

\* 4.184e15 joules, one megaton of TNT
JoulesPerMegaton == Pos(15622)

\* C16: every megaton figure of the impact record is the corresponding energy
\* in joules divided by 4.184e15: kinetic_energy_megatons and
\* effective_megatons use the joule-per-megaton constant of
\* Asteroid.tnt_equivalent.
C16_MegatonsAreJoulesOver4184e15 ==
    /\ "effective_megatons" \in DOMAIN results =>
          /\ results.kinetic_energy_megatons =
                Div(results.kinetic_energy_joules, JoulesPerMegaton)
          /\ results.effective_megatons =
                Div(results.effective_energy, JoulesPerMegaton)
    /\ asteroid_dict # NoRecord =>
          asteroid_dict.tnt_equivalent = Div(asteroid_dict.impact_energy, JoulesPerMegaton)

\* C17: for diameter 500 m, velocity 20 km/s, density 3000, angle 45 on land
\* the effective yield lies between 100 and 1000 megatons and the impact is
\* classified "Major Regional Impact".
C17_ReferenceScenarioMajorRegional ==
    (Evaluated /\ impact.parameters = ImpactParameters(500, 20, 3000, 45, "land")) =>
        /\ Greater(impact.calculations.effective_megatons, Real(100))
        /\ Less(impact.calculations.effective_megatons, Real(1000))
        /\ impact.summary.impact_classification = "Major Regional Impact"

\* C18: the success probability of the kinetic-impactor model depends on the
\* asteroid diameter only: 0.95 below 100 m, 0.85 from 100 m to below 300 m,
\* 0.70 from 300 m to below 500 m, 0.50 from 500 m; its cost in million USD
\* is 300 + diameter/10 (450 m gives 0.70 and 345).
C18_KineticImpactorSteps ==
    "kinetic_impactor" \in DOMAIN strategies =>
        LET d == mission.asteroid_diameter
            r == strategies["kinetic_impactor"]
        IN  /\ d < 100 => r.success_probability = 95
            /\ (100 <= d /\ d < 300) => r.success_probability = 85
            /\ (300 <= d /\ d < 500) => r.success_probability = 70
            /\ d >= 500 => r.success_probability = 50
            /\ r.mission_cost_million_usd = 3000 + d
            /\ d = 450 => (r.success_probability = 70 /\ r.mission_cost_million_usd = 3450)

\* a comparison returned for a 450 m asteroid, with 0.70 and 345 million USD
C18_Witness ==
    /\ Compared
    /\ mission.asteroid_diameter = 450
    /\ comparison.strategies["kinetic_impactor"].success_probability = 70
    /\ comparison.strategies["kinetic_impactor"].mission_cost_million_usd = 3450

\* C19: the success probability of the gravity-tractor model depends on the
\* warning time only: 0.90 at 10 years or more, 0.75 from 5 to below 10 years,
\* 0.50 below 5 years (3 years gives 0.50, 20 years 0.90).
C19_GravityTractorSteps ==
    "gravity_tractor" \in DOMAIN strategies =>
        LET w == mission.warning_time_years
            r == strategies["gravity_tractor"]
        IN  /\ w >= 1000 => r.success_probability = 90
            /\ (500 <= w /\ w < 1000) => r.success_probability = 75
            /\ w < 500 => r.success_probability = 50

\* the dict of the asteroid built from the arguments args with the diameter
\* and velocity replaced
DictFor(args, diameter, velocity) ==
    AsteroidToDict(AsteroidInit(diameter, velocity, args.density, args.angle,
                                args.type_name))

\* C20: for a valid impactor and every angle in [0,90], mass, kinetic_energy
\* and tnt_equivalent are strictly increasing in diameter with the other
\* arguments fixed, and kinetic_energy and tnt_equivalent are strictly
\* increasing in velocity with the other arguments fixed.
C20_StrictlyIncreasing ==
    (asteroid_dict # NoRecord
        /\ asteroid_args.diameter > 0 /\ asteroid_args.velocity > 0
        /\ asteroid_args.density > 0
        /\ asteroid_args.angle >= 0 /\ asteroid_args.angle <= 90) =>
        /\ \A d \in ImpactDiameters :
              d > asteroid_args.diameter =>
                LET larger == DictFor(asteroid_args, d, asteroid_args.velocity)
                IN  /\ Less(asteroid_dict.mass, larger.mass)
                    /\ Less(asteroid_dict.kinetic_energy, larger.kinetic_energy)
                    /\ Less(asteroid_dict.tnt_equivalent, larger.tnt_equivalent)
        /\ \A v \in ImpactVelocities :
              v > asteroid_args.velocity =>
                LET faster == DictFor(asteroid_args, asteroid_args.diameter, v)
                IN  /\ Less(asteroid_dict.kinetic_energy, faster.kinetic_energy)
                    /\ Less(asteroid_dict.tnt_equivalent, faster.tnt_equivalent)

\* the dict of a valid asteroid at the boundary angle 90 for which the model
\* holds both a larger diameter and a larger velocity
C20_Witness ==
    /\ asteroid_dict # NoRecord
    /\ asteroid_args.diameter = 50
    /\ asteroid_args.velocity = 10
    /\ asteroid_args.density = 3000
    /\ asteroid_args.angle = 90

\* the crater step has written its fields for a positive effective yield
CraterComputed ==
    /\ "crater_diameter_km" \in DOMAIN results
    /\ results.effective_megatons.k = "pos"

\* the crater of the request params with another diameter of the impactor
CraterForDiameter(d) ==
    LET prm == ImpactParameters(d, params.velocity, params.density, params.angle,
                                params.target_type)
        res == calculate_kinetic_energy(prm)
    IN  [energy |-> res.effective_megatons,
         crater |-> calculate_crater_dimensions(prm, res).crater_diameter_km]

\* the crater of the energy in results on another target type
CraterOnTarget(target_type) ==
    calculate_crater_dimensions(
        ImpactParameters(params.diameter, params.velocity, params.density,
                         params.angle, target_type), results).crater_diameter_km

\* C21: the crater diameter is strictly increasing in the effective megatons
\* for a fixed target type; for the same positive effective energy the crater
\* on water (constant 2.2) is strictly larger than on land (constant 1.8); the
\* depth is the diameter divided by 5.
C21_CraterMonotone ==
    CraterComputed =>
        /\ \A d \in ImpactDiameters :
              LET other == CraterForDiameter(d)
              IN  (other.energy.k = "pos" /\ Less(results.effective_megatons, other.energy))
                      => Less(results.crater_diameter_km, other.crater)
        /\ Less(CraterOnTarget("land"), CraterOnTarget("water"))
        /\ results.crater_diameter_km = CraterOnTarget(params.target_type)
        /\ results.crater_depth_km = Div(results.crater_diameter_km, Real(5))

\* the crater of a 50 m impactor on land, with a larger impactor to compare
C21_Witness ==
    /\ CraterComputed
    /\ params.diameter = 50
    /\ params.target_type = "land"
    /\ pc = "seismic_effects"

\* C22: every step after the energy step reads only values the energy step
\* wrote: the crater, seismic, blast, thermal, tsunami, atmospheric and
\* ejecta steps run in any order after calculate_kinetic_energy raise no
\* missing-key fault and produce the result record of calculate_all.
C22_EffectStepsOrderFree ==
    /\ error # "KeyError"
    /\ pc = "calculated" => results = calculate_all(params)

\* C23: the seismic magnitude of an impact evaluation is never negative: for
\* every positive effective energy, however small, it is
\* max(0, 0.67 * log10(effective_energy_J) - 5.87).
C23_MagnitudeClampedAtZero ==
    ("seismic_magnitude" \in DOMAIN results /\ results.effective_energy.k = "pos") =>
        /\ results.seismic_magnitude >= 0
        /\ results.seismic_magnitude =
              Max2(0, (67 * results.effective_energy.lg) \div 100 - 5870)

\* the distances of the seismic ladder
SeismicLadder == {SeismicDistances[i] : i \in 1..Len(SeismicDistances)}

\* C24: the seismic intensity mapping has an entry for every distance of the
\* ladder {10,50,100,500,1000,5000} km: a distance inside the crater radius
\* carries the total-destruction tag, every other distance a band label whose
\* numeric intensity lies in [0,12].
C24_IntensityForEveryDistance ==
    "seismic_intensities" \in DOMAIN results =>
        LET crater_radius == Div(results.crater_diameter_km, Real(2))
            intensities == results.seismic_intensities
        IN  /\ DOMAIN intensities = SeismicLadder
            /\ \A d \in DOMAIN intensities :
                  IF Less(Real(d), crater_radius)
                  THEN intensities[d].band = "XII (Total destruction)"
                  ELSE intensities[d].value >= 0 /\ intensities[d].value <= 12000

\* the distances of the blast ladder
BlastLadder == {BlastDistances[i] : i \in 1..Len(BlastDistances)}

\* C25: for every positive effective yield the blast mapping has an entry for
\* each of the eight ladder distances {1,5,10,25,50,100,250,500} km, and a
\* farther distance never has a higher overpressure than a nearer one.
C25_BlastNonIncreasing ==
    ("blast_effects" \in DOMAIN results /\ results.effective_megatons.k = "pos") =>
        /\ DOMAIN results.blast_effects = BlastLadder
        /\ Cardinality(DOMAIN results.blast_effects) = 8
        /\ \A near, far \in DOMAIN results.blast_effects :
              near < far =>
                  results.blast_effects[near].overpressure_psi >=
                      results.blast_effects[far].overpressure_psi

\* a positive yield whose blast ladder falls through several tiers
C25_Witness ==
    /\ "blast_effects" \in DOMAIN results
    /\ results.effective_megatons.k = "pos"
    /\ results.blast_effects[1].overpressure_psi >
           results.blast_effects[500].overpressure_psi
    /\ Cardinality({results.blast_effects[d].overpressure_psi : d \in BlastLadder}) >= 3

\* the mission of the running comparison with another mission duration
WithDuration(dur) == [mission EXCEPT !.mission_duration_years = dur]

\* C26: for each of the five strategy models, deflection_distance_km is
\* delta_v_ms * (warning_time_years * 365.25 * 24 * 3600) / 1000, from the
\* warning time and never the mission duration; the kinetic-impactor and the
\* nuclear result are the same for every mission duration.
C26_DistanceFromWarningTime ==
    /\ \A k \in DOMAIN strategies :
          strategies[k].deflection_distance_km =
              MulDiv(strategies[k].delta_v_ms,
                     mission.warning_time_years * 3156, 100000000)
    /\ \A dur \in MissionDurations :
          /\ "kinetic_impactor" \in DOMAIN strategies =>
                kinetic_impactor_deflection(WithDuration(dur)) =
                    strategies["kinetic_impactor"]
          /\ "nuclear" \in DOMAIN strategies =>
                nuclear_deflection(WithDuration(dur)) = strategies["nuclear"]

\* all five strategies evaluated with a mission duration that differs from the
\* warning time and that the gravity tractor does depend on
C26_Witness ==
    /\ DOMAIN strategies = StrategyKeys
    /\ mission.mission_duration_years # mission.warning_time_years
    /\ strategies["kinetic_impactor"].deflection_distance_km > 0
    /\ strategies["nuclear"].deflection_distance_km > 0
    /\ \E dur \in MissionDurations :
          gravity_tractor_deflection(WithDuration(dur)) # strategies["gravity_tractor"]

\* the recommendation of a comparison names a primary strategy
NamesPrimary == Compared /\ comparison.recommendations.status \in {"URGENT", "ADEQUATE", "OPTIMAL"}

\* C27: whenever the recommendation status is URGENT, ADEQUATE or OPTIMAL, the
\* ranking entry of the strategy named as primary_strategy has is_sufficient
\* true.
C27_PrimaryIsSufficient ==
    NamesPrimary =>
        LET r == comparison.rankings
        IN  r[RankOf(r, comparison.recommendations.primary_strategy)].is_sufficient

\* C28: in every URGENT, ADEQUATE or OPTIMAL recommendation,
\* cost_estimate_million_usd is the mission_cost_million_usd of the strategy
\* named as primary_strategy.
C28_CostIsThatOfPrimary ==
    NamesPrimary =>
        comparison.recommendations.cost_estimate_million_usd =
            comparison.strategies[comparison.recommendations.primary_strategy]
                .mission_cost_million_usd

\* C29: in a comparison, the warning time that picks the recommendation bucket
\* and is reported as warning_time_years is the time to impact (impact_date
\* minus launch_date) that the required delta-v is computed from, for a mission
\* of simulate_deflection_scenario and for a mission built by the caller alike.
C29_WarningTimeIsTimeToImpact ==
    Compared =>
        /\ comparison.warning_time_years = TimeYears(mission, impact_date)
        /\ mission.warning_time_years = mresults.warning_time_years
        /\ comparison.required_deflection_ms =
               RequiredDeltaV(comparison.warning_time_years)

\* C30: for an ocean or coast location, tsunami_height_m and tsunami_range_km
\* of calculate_tsunami_effects are non-decreasing in the energy in megatons
\* across all risk tiers, and the risk is 'None' with height 0 and range 0
\* exactly when the location is neither ocean nor coast.
C30_TsunamiNonDecreasingInEnergy ==
    enhanced # NoRecord =>
        /\ (enhanced.tsunami_risk = "None") <=>
               (enhanced.location \notin {"ocean", "coast"})
        /\ enhanced.tsunami_risk = "None" =>
               enhanced.tsunami_height_m = 0 /\ enhanced.tsunami_range_km = 0
        /\ enhanced.location \in {"ocean", "coast"} =>
               \A more \in EnhancedEnergies :
                  more >= enhanced.energy_mt =>
                      LET other == enhanced_tsunami_effects(more, enhanced.location)
                      IN  /\ other.tsunami_height_m >= enhanced.tsunami_height_m
                          /\ other.tsunami_range_km >= enhanced.tsunami_range_km
====
